---- MODULE Spec2Model ----
(***************************************************************************)
(* A model of the gdb pretty-printer framework: the synthetic tag codec    *)
(* (gdb_synthetic_nodes.py), the printer registry, the chunked range       *)
(* scanner with its scoped convenience variables, the summary formatter    *)
(* and the dispatch engine (gdb_printers.py).                              *)
(*                                                                         *)
(* gdb itself is not part of the repository.  Its objects are modelled by  *)
(* what the gdb Python API documents: a gdb.Type is a named base type with *)
(* qualifiers and a chain of derivations (pointer, array), str(gdb.Type)   *)
(* is its C declarator text, Type.array(n) is the array with inclusive     *)
(* upper bound n (n + 1 elements), gdb.lookup_type resolves a type name.   *)
(***************************************************************************)
EXTENDS Integers, Sequences, FiniteSets, TLC

VARIABLES codec, reg, conv, scan, elems, exited, disp, host, fmt

vars == <<codec, reg, conv, scan, elems, exited, disp, host, fmt>>

(***************************************************************************)
(* Bounds of the model.                                                    *)
(***************************************************************************)
MaxEnum == 2      \* largest component of a tag tuple
MaxTagLen == 3    \* longest tag tuple
MaxDim == 2       \* largest real array dimension
MaxRank == 2      \* most real array dimensions of a value's type

(***************************************************************************)
(* Python results: a returned value or a raised exception.                 *)
(***************************************************************************)
NoValue == [none |-> TRUE]
Ok(x) == [ok |-> TRUE, err |-> "", val |-> x]
Raise(e) == [ok |-> FALSE, err |-> e, val |-> NoValue]

\* Python objects handed to gdb as an array bound: an int, or a str of digits.
PyInt(n) == [py |-> "int", n |-> n]
PyStr(n) == [py |-> "str", n |-> n]

(***************************************************************************)
(* gdb.Type and its text.                                                  *)
(***************************************************************************)
TypeNames == {"ColorRGBA", "int"}

\* Every type name the inferior knows: also mystruct and its base class Base,
\* Iter, the class of an iterator that is not a raw pointer, and Anon, a
\* struct with fields that have no name.  Only int is not a struct.
KnownTypeNames == TypeNames \cup {"mystruct", "Base", "Iter", "Anon"}
StructNames == KnownTypeNames \ {"int"}

P == [k |-> "ptr", n |-> 0]
A(n) == [k |-> "arr", n |-> n]

\* The pieces of a type's text: a word, or an array dimension "[n]".
W(s) == [k |-> "w", s |-> s, n |-> 0]
D(n) == [k |-> "d", s |-> "", n |-> n]

NamedType(name, c, v) == [name |-> name, c |-> c, v |-> v, chain |-> <<>>]

\* gdb.Type.pointer()
TypePointer(t) == [t EXCEPT !.chain = Append(@, P)]

\* gdb.Type.const(), gdb.Type.volatile(), gdb.Type.unqualified()
TypeConst(t) == [t EXCEPT !.c = TRUE]
TypeVolatile(t) == [t EXCEPT !.v = TRUE]
TypeUnqualified(t) == [t EXCEPT !.c = FALSE, !.v = FALSE]

\* gdb.Type.array(n): n is the inclusive upper bound, the lower bound is 0, so
\* the array has n + 1 elements; n = -1 is the empty array.  The bound must be
\* a Python int.
TypeArray(t, bound) ==
  IF bound.py # "int" THEN Raise("TypeError")
  ELSE IF bound.n < -1 THEN Raise("ValueError")
  ELSE Ok([t EXCEPT !.chain = Append(@, A(bound.n + 1))])

\* The C declarator of a derivation chain, outermost derivation first: a
\* pointer prefixes "*", an array suffixes "[n]" and parenthesises a
\* declarator that begins with "*".
RECURSIVE Declarator(_, _, _)
Declarator(chain, i, acc) ==
  IF i = 0 THEN acc
  ELSE IF chain[i].k = "ptr" THEN Declarator(chain, i - 1, <<W("*")>> \o acc)
  ELSE LET inner == IF acc # <<>> /\ acc[1] = W("*")
                    THEN <<W("(")>> \o acc \o <<W(")")>>
                    ELSE acc
       IN Declarator(chain, i - 1, inner \o <<D(chain[i].n)>>)

\* str(gdb.Type), e.g. "const ColorRGBA (*(****)[2])[3]"
TypeStr(t) ==
  (IF t.c THEN <<W("const ")>> ELSE <<>>)
  \o (IF t.v THEN <<W("volatile ")>> ELSE <<>>)
  \o <<W(t.name)>>
  \o (IF t.chain = <<>> THEN <<>>
      ELSE <<W(" ")>> \o Declarator(t.chain, Len(t.chain), <<>>))

\* gdb.lookup_type(name): resolves a type by its name; surrounding blanks are
\* not significant, anything that is not a known type name is a gdb.error.
lookup_type(text) ==
  LET words == SelectSeq(text, LAMBDA x : x # W(" "))
  IN IF Len(words) = 1 /\ words[1].k = "w" /\ words[1].s \in KnownTypeNames
     THEN Ok(NamedType(words[1].s, FALSE, FALSE))
     ELSE Raise("gdb.error")

(***************************************************************************)
(* gdb.Value: where it lives in the inferior (loc), what it points to when *)
(* it is a pointer (ptr), and its type.                                    *)
(***************************************************************************)
Value(loc, ptr, type) == [loc |-> loc, ptr |-> ptr, type |-> type]

\* val.address.cast(ptr_type)
AddressCast(val, ptr_type) == Value(0, val.loc, ptr_type)

\* val.cast(t.pointer()).dereference()
CastDeref(val, t) == Value(val.ptr, 0, t)

(***************************************************************************)
(* gdb_synthetic_nodes.py                                                  *)
(***************************************************************************)
\* The loop of make_enums_tag: array_type.array(enum - 1) for the components
\* in reverse order.
RECURSIVE TagArrays(_, _, _)
TagArrays(t, enum_tuple, i) ==
  IF i = 0 THEN Ok(t)
  ELSE LET r == TypeArray(t, PyInt(enum_tuple[i] - 1))
       IN IF r.ok THEN TagArrays(r.val, enum_tuple, i - 1) ELSE r

make_enums_tag(val, enum_tuple) ==
  LET base_type == TypePointer(val.type)
      array_type == TagArrays(base_type, enum_tuple, Len(enum_tuple))
  IN IF ~array_type.ok THEN array_type
     ELSE LET ptr_type ==
                TypePointer(TypePointer(TypePointer(TypePointer(array_type.val))))
          IN Ok(AddressCast(val, ptr_type))

\* The fixed middle of SYNTH_TAG_TYPE_RE: \*\(\*\*\*\*\)
QuadPtr == <<W("*"), W("("), W("*"), W("*"), W("*"), W("*"), W(")")>>

\* How many "[n]" pieces follow each other from position q on.
RECURSIVE DimRun(_, _)
DimRun(s, q) ==
  IF q <= Len(s) /\ s[q].k = "d" THEN 1 + DimRun(s, q + 1) ELSE 0

\* One way SYNTH_TAG_TYPE_RE can lay its groups over the text s: whether the
\* optional groups c, v and open take part, and how long the group type is.
TagLayouts(s) == [c : BOOLEAN, v : BOOLEAN, k : 1..Len(s), open : BOOLEAN]

TypeStart(m) == 1 + (IF m.c THEN 1 ELSE 0) + (IF m.v THEN 1 ELSE 0)
QuadStart(m) == TypeStart(m) + m.k + (IF m.open THEN 1 ELSE 0)
TagsStart(m) == QuadStart(m) + Len(QuadPtr)

LayoutMatches(s, m) ==
  LET vpos == IF m.c THEN 2 ELSE 1
      q == QuadStart(m)
      tg == TagsStart(m)
      nd == DimRun(s, tg)
  IN /\ m.c => (Len(s) >= 1 /\ s[1] = W("const "))
     /\ m.v => (Len(s) >= vpos /\ s[vpos] = W("volatile "))
     /\ tg - 1 <= Len(s)
     /\ m.open => s[q - 1] = W("(")
     /\ SubSeq(s, q, tg - 1) = QuadPtr
     /\ nd >= 1
     /\ m.open => (tg + nd <= Len(s) /\ s[tg + nd] = W(")"))

\* The order in which the regex engine tries the layouts: an optional group is
\* tried present first, the lazy group type shortest first.
LayoutRank(s, m) ==
  (IF m.c THEN 0 ELSE 1) * (4 * (Len(s) + 1))
  + (IF m.v THEN 0 ELSE 1) * (2 * (Len(s) + 1))
  + 2 * m.k + (IF m.open THEN 0 ELSE 1)

\* SYNTH_TAGS_RE.findall: the digits of every "[n]", as Python strings.
FindAllTags(text) ==
  LET dims == SelectSeq(text, LAMBDA x : x.k = "d")
  IN [i \in 1..Len(dims) |-> PyStr(dims[i].n)]

\* The groups of the match laid out as m.
MatchGroups(type_str, m) ==
  LET tg == TagsStart(m)
      nd == DimRun(type_str, tg)
      rest == tg + nd + (IF m.open THEN 1 ELSE 0)
  IN Ok([c |-> m.c, v |-> m.v,
         type |-> SubSeq(type_str, TypeStart(m), TypeStart(m) + m.k - 1),
         tags |-> SubSeq(type_str, tg, tg + nd - 1),
         array |-> SubSeq(type_str, rest, Len(type_str))])

\* The match the regex engine reports among the layouts that fit.
FirstLayout(type_str, found) ==
  IF found = {} THEN Raise("ValueError")
  ELSE MatchGroups(type_str,
                   CHOOSE x \in found :
                     \A y \in found : LayoutRank(type_str, x) <= LayoutRank(type_str, y))

get_type_tag_matches(type_str) ==
  FirstLayout(type_str, {m \in TagLayouts(type_str) : LayoutMatches(type_str, m)})

\* int(m) for a Python string of digits
IntOfStr(m) == m.n

\* tuple(int(m) for m in SYNTH_TAGS_RE.findall(tags))
ExtractFrom(matched) ==
  IF ~matched.ok THEN matched
  ELSE Ok([i \in 1..Len(FindAllTags(matched.val.tags)) |->
             IntOfStr(FindAllTags(matched.val.tags)[i])])

extract_enums_tag(val) == ExtractFrom(get_type_tag_matches(TypeStr(val.type)))

\* The loop of recover_value: base_type.array(array_size) for the strings
\* found in the group array, in reverse order.
RECURSIVE RealArrays(_, _, _)
RealArrays(t, array_sizes, i) ==
  IF i = 0 THEN Ok(t)
  ELSE LET r == TypeArray(t, array_sizes[i])
       IN IF r.ok THEN RealArrays(r.val, array_sizes, i - 1) ELSE r

\* base_type.volatile() and base_type.const() where the groups say so
Requalify(g, base_type) ==
  IF g.c /\ g.v THEN TypeConst(TypeVolatile(base_type))
  ELSE IF g.c THEN TypeConst(base_type)
  ELSE IF g.v THEN TypeVolatile(base_type)
  ELSE base_type

\* The array rebuild, when the group array is not empty.
Reshape(g, base_type, array_sizes) ==
  IF g.array # <<>> THEN RealArrays(base_type, array_sizes, Len(array_sizes))
  ELSE Ok(base_type)

RecoverFound(val, g, found) ==
  IF ~found.ok THEN found
  ELSE LET t == Reshape(g, Requalify(g, found.val), FindAllTags(g.array))
       IN IF ~t.ok THEN t ELSE Ok(CastDeref(val, t.val))

RecoverFrom(val, matched) ==
  IF ~matched.ok THEN matched
  ELSE RecoverFound(val, matched.val, lookup_type(matched.val.type))

recover_value(val) == RecoverFrom(val, get_type_tag_matches(TypeStr(val.type)))

(***************************************************************************)
(* The codec on its own: a value of the inferior and a tag tuple are       *)
(* encoded, the tag is extracted, the value is recovered.                  *)
(***************************************************************************)
Locs == 1..2

RECURSIVE Reverse(_)
Reverse(s) == IF s = <<>> THEN <<>> ELSE Reverse(Tail(s)) \o <<Head(s)>>

DimLists == UNION {[1..n -> 1..MaxDim] : n \in 0..MaxRank}

\* The type of "name x[d1]...[dn]": an array of d1 arrays of ... of dn names.
ArrayType(name, c, v, dims) ==
  [name |-> name, c |-> c, v |-> v,
   chain |-> [i \in 1..Len(dims) |-> A(Reverse(dims)[i])]]

\* The dimensions d1..dn of a real (array) type.
TypeDims(t) == Reverse([i \in 1..Len(t.chain) |-> t.chain[i].n])

RealTypes ==
  {ArrayType(n, c, v, d) : n \in TypeNames, c \in BOOLEAN, v \in BOOLEAN, d \in DimLists}

TagTuples == UNION {[1..n -> 0..MaxEnum] : n \in 1..MaxTagLen}

CodecIdle == [pc |-> "idle", v |-> NoValue, t |-> <<>>,
              tag |-> Raise(""), enums |-> Raise(""), rec |-> Raise("")]

CodecStarts ==
  {[CodecIdle EXCEPT !.pc = "start", !.v = Value(l, 0, ty), !.t = t] :
     l \in Locs, ty \in RealTypes, t \in TagTuples}

CodecEncode ==
  /\ codec.pc = "start"
  /\ codec' = [codec EXCEPT !.pc = "tagged", !.tag = make_enums_tag(codec.v, codec.t)]
  /\ UNCHANGED <<fmt, reg, conv, scan, elems, exited, disp, host>>

CodecExtract ==
  /\ codec.pc = "tagged" /\ codec.tag.ok
  /\ codec' = [codec EXCEPT !.pc = "extracted", !.enums = extract_enums_tag(codec.tag.val)]
  /\ UNCHANGED <<fmt, reg, conv, scan, elems, exited, disp, host>>

CodecRecover ==
  /\ codec.pc = "extracted"
  /\ codec' = [codec EXCEPT !.pc = "done", !.rec = recover_value(codec.tag.val)]
  /\ UNCHANGED <<fmt, reg, conv, scan, elems, exited, disp, host>>

CodecNext == CodecEncode \/ CodecExtract \/ CodecRecover

\* C1: for every value v and every tag tuple t of non-negative integers,
\* extract_enums_tag(make_enums_tag(v, t)) is exactly t and
\* recover_value(make_enums_tag(v, t)) is the value at v's address with v's
\* real type.
C1_TagRoundTrip ==
  codec.pc = "done" =>
    /\ codec.enums.ok /\ codec.enums.val = codec.t
    /\ codec.rec.ok
    /\ codec.rec.val.loc = codec.v.loc
    /\ codec.rec.val.type = codec.v.type

\* C2: the round trip keeps the qualifiers and the array dimensions d1..dn
\* of v's type, and the extracted tag holds the components of t only.
C2_QualifiersAndShape ==
  codec.pc = "done" =>
    /\ codec.rec.ok
    /\ codec.rec.val.type.c = codec.v.type.c
    /\ codec.rec.val.type.v = codec.v.type.v
    /\ TypeDims(codec.rec.val.type) = TypeDims(codec.v.type)
    /\ codec.enums.ok /\ Len(codec.enums.val) = Len(codec.t)
    /\ \A i \in 1..Len(codec.t) : codec.enums.val[i] = codec.t[i]

\* What the codec does get right: the tag tuple always comes back, and a
\* value whose type is not an array is recovered with its qualifiers.
CodecTagsAndScalars ==
  codec.pc = "done" =>
    /\ codec.enums.ok /\ codec.enums.val = codec.t
    /\ codec.v.type.chain = <<>> =>
         (codec.rec.ok /\ codec.rec.val = Value(codec.v.loc, 0, codec.v.type))
    /\ codec.v.type.chain # <<>> => (~codec.rec.ok /\ codec.rec.err = "TypeError")

(***************************************************************************)
(* Printer specifications (the dicts handed to add_printer).  A key that   *)
(* the dict does not hold is Absent.                                       *)
(***************************************************************************)
Absent == "<absent>"

\* One (label, accessor) pair; fails tells when calling the accessor raises:
\* "never", "always", or "second" (its first call returns, its second raises).
Node(label, fails) == [label |-> label, fails |-> fails]

\* A view: "name", whether it has "summary", and which of the keys "node" (a
\* printer class), "nodes" (a tuple of pairs) and "elements" (a function that
\* makes a generator) it holds: mode is "node", "nodes", "nodes+elements" or
\* "elements".
View(name, summary, mode, nodes) ==
  [name |-> name, summary |-> summary, mode |-> mode, nodes |-> nodes]

\* A printer spec: whether it has "summary", its "default_view" (or Absent),
\* whether it has "views", and the views.
Printer(summary, default_view, has_views, views) ==
  [summary |-> summary, default_view |-> default_view,
   has_views |-> has_views, views |-> views]

NoPrinter == [none |-> TRUE]

\* The views of the ColorRGBA printer of gdb_test_printers.py.
ColorViews ==
  <<View("Components", TRUE, "node",
         <<Node("red", "never"), Node("green", "never"), Node("blue", "never")>>),
    View("Alpha", TRUE, "nodes",
         <<Node("python string", "never"), Node("normalized", "never")>>),
    View("Statistics", TRUE, "node",
         <<Node("brightness", "never"), Node("opacity", "never")>>)>>

ColorPrinter == Printer(TRUE, Absent, TRUE, ColorViews)
MyStructPrinter == Printer(TRUE, Absent, FALSE, <<>>)

(***************************************************************************)
(* The registry: _pretty_printers (a dict), _pretty_printers_re (a list),  *)
(* and the lines add_printer and add_re_printer write to the log.          *)
(***************************************************************************)
MaxRegs == 3     \* most registrations in a run

\* A pattern is a sequence of pieces of type text; Dot matches any piece.
Dot == [k |-> "any", s |-> "", n |-> 0]

\* regex.match(type_str): the pattern matches at the start of the text (the
\* text may go on after the match).
ReMatch(regex, type_str) ==
  /\ Len(regex) <= Len(type_str)
  /\ \A i \in 1..Len(regex) : regex[i] = Dot \/ regex[i] = type_str[i]

RegNames == {<<W("ColorRGBA")>>, <<W("int")>>, <<W("int"), W(" "), D(2)>>}
RegPatterns == {<<W("ColorRGBA")>>, <<Dot>>, <<W("int"), W(" ")>>}
RegPrinters == {ColorPrinter, MyStructPrinter}

RegIdle == [exact |-> <<>>, re |-> <<>>, log |-> <<>>]

\* _pretty_printers[type_name] = printer
WithPrinter(r, type_name, printer) ==
  [r EXCEPT
     !.exact = [x \in DOMAIN r.exact \cup {type_name} |->
                  IF x = type_name THEN printer ELSE r.exact[x]],
     !.log = Append(@, [kind |-> "exact", key |-> type_name, printer |-> printer])]

\* _pretty_printers_re.append((re.compile(type_re), printer))
WithRePrinter(r, type_re, printer) ==
  [r EXCEPT
     !.re = Append(@, [regex |-> type_re, printer |-> printer]),
     !.log = Append(@, [kind |-> "re", key |-> type_re, printer |-> printer])]

add_printer(type_name, printer) ==
  /\ Len(reg.log) < MaxRegs
  /\ reg' = WithPrinter(reg, type_name, printer)
  /\ UNCHANGED <<fmt, codec, conv, scan, elems, exited, disp, host>>

add_re_printer(type_re, printer) ==
  /\ Len(reg.log) < MaxRegs
  /\ reg' = WithRePrinter(reg, type_re, printer)
  /\ UNCHANGED <<fmt, codec, conv, scan, elems, exited, disp, host>>

\* The loop of _match_printer over _pretty_printers_re: the first match.
FirstReMatch(type_str) ==
  LET hits == {i \in 1..Len(reg.re) : ReMatch(reg.re[i].regex, type_str)}
  IN IF hits = {} THEN NoPrinter
     ELSE reg.re[CHOOSE i \in hits : \A j \in hits : i <= j].printer

\* A mutation of _match_printer: the patterns are tried before the dict.
match_printer_patterns_first(type_str) ==
  IF FirstReMatch(type_str) # NoPrinter THEN FirstReMatch(type_str)
  ELSE IF type_str \in DOMAIN reg.exact THEN reg.exact[type_str]
  ELSE NoPrinter

_match_printer(type_str) ==
  IF type_str \in DOMAIN reg.exact THEN reg.exact[type_str]
  ELSE FirstReMatch(type_str)

RegistryNext ==
  \/ \E n \in RegNames, p \in RegPrinters : add_printer(n, p)
  \/ \E r \in RegPatterns, p \in RegPrinters : add_re_printer(r, p)

\* The type texts looked up against the registry.
QueryTypes == RegNames \cup {<<W("ColorRGBA"), W(" "), D(2)>>, <<W("mystruct")>>}

\* What the registrations made so far (the log) resolve a type text to: the
\* printer of the latest exact registration of it, else the printer of the
\* earliest pattern registration that matches it, else none.
Resolution(log, type_str) ==
  LET ex == {i \in 1..Len(log) : log[i].kind = "exact" /\ log[i].key = type_str}
      res == {i \in 1..Len(log) : log[i].kind = "re" /\ ReMatch(log[i].key, type_str)}
  IN IF ex # {} THEN log[CHOOSE i \in ex : \A j \in ex : i >= j].printer
     ELSE IF res # {} THEN log[CHOOSE i \in res : \A j \in res : i <= j].printer
     ELSE NoPrinter

\* C3: whatever was registered, in whatever order, _match_printer(T) is the
\* printer registered under the exact name T if there is one, else that of
\* the earliest registered pattern matching T, else none; and every
\* registration made is still in the registry.
C3_RegistryResolution ==
  /\ \A T \in QueryTypes : _match_printer(T) = Resolution(reg.log, T)
  /\ \A i \in 1..Len(reg.log) :
       \/ reg.log[i].kind = "exact" /\ reg.log[i].key \in DOMAIN reg.exact
       \/ /\ reg.log[i].kind = "re"
          /\ \E j \in 1..Len(reg.re) :
               /\ reg.re[j] = [regex |-> reg.log[i].key, printer |-> reg.log[i].printer]
               /\ j = Cardinality({h \in 1..i : reg.log[h].kind = "re"})

\* An exact registration of "ColorRGBA" made after a pattern that matches it
\* with another printer, and the exact one is what resolves.
C3_Witness ==
  /\ Len(reg.log) >= 2
  /\ reg.log[1] = [kind |-> "re", key |-> <<Dot>>, printer |-> MyStructPrinter]
  /\ reg.log[2] = [kind |-> "exact", key |-> <<W("ColorRGBA")>>, printer |-> ColorPrinter]
  /\ _match_printer(<<W("ColorRGBA")>>) = ColorPrinter
  /\ _match_printer(<<W("int")>>) = MyStructPrinter

(***************************************************************************)
(* The dispatch engine's resolution of a value to a printer object.        *)
(***************************************************************************)
_MSG_ENUM_I == 0
_STATIC_ENUM_I == 1
_STATIC_ENUM == <<_STATIC_ENUM_I>>
_RAW_ENUM_I == 2
_RAW_ENUM == <<_RAW_ENUM_I>>
_CHUNK_ENUM_I == 3
_CHUNK_ENUM(offset, chunk_size) == <<_CHUNK_ENUM_I, offset, chunk_size>>
_VIEW_ENUM_I == 4
_VIEW_ENUM(view_index) == <<_VIEW_ENUM_I + view_index>>

\* val.type.code
TypeCode(t) ==
  IF t.chain # <<>>
  THEN (IF t.chain[Len(t.chain)].k = "ptr" THEN "ptr" ELSE "array")
  ELSE IF t.name \in StructNames THEN "struct" ELSE "int"

\* "(****)" in type_str
HasQuad(type_str) ==
  \E q \in 1..Len(type_str) :
    /\ q + 5 <= Len(type_str)
    /\ SubSeq(type_str, q, q + 5) = SubSeq(QuadPtr, 2, 7)

\* A printer object: its class and what its constructor stored.
PrinterObj(cls, val, printer, view, offset, chunk_size, string) ==
  [cls |-> cls, val |-> val, printer |-> printer, view |-> view,
   offset |-> offset, chunk_size |-> chunk_size, string |-> string]

NoView == [none |-> TRUE]
NoObj == [none |-> TRUE]

StaticPrinter(val) == PrinterObj("StaticPrinter", val, NoPrinter, NoView, 0, 0, <<>>)
RawPrinter(val, printer) == PrinterObj("RawPrinter", val, printer, NoView, 0, 0, <<>>)
ChunkPrinter(val, offset, chunk_size) ==
  PrinterObj("ChunkPrinter", val, NoPrinter, NoView, offset, chunk_size, <<>>)
MessagePrinter(val, string) == PrinterObj("MessagePrinter", val, NoPrinter, NoView, 0, 0, string)
ViewPrinter(val, view) == PrinterObj("ViewPrinter", val, NoPrinter, view, 0, 0, <<>>)
DefaultPrinter(val, printer) == PrinterObj("DefaultPrinter", val, printer, NoView, 0, 0, <<>>)
ArrayPrinter(val) == PrinterObj("ArrayPrinter", val, NoPrinter, NoView, 0, 0, <<>>)

\* Python's seq[i]: i counts from 0, a negative i counts from the end.
PyIndex(seq, i) ==
  IF 0 <= i /\ i < Len(seq) THEN Ok(seq[i + 1])
  ELSE IF i < 0 /\ -i <= Len(seq) THEN Ok(seq[Len(seq) + i + 1])
  ELSE Raise("IndexError")

_get_printer(val, type_str) ==
  LET printer == _match_printer(type_str)
  IN IF printer # NoPrinter THEN Ok(DefaultPrinter(val, printer))
     ELSE IF TypeCode(val.type) = "struct" THEN Ok(DefaultPrinter(val, NoPrinter))
     ELSE IF TypeCode(val.type) = "array" THEN Ok(ArrayPrinter(val))
     ELSE Ok(NoObj)

\* The branches of _lookup_type on the decoded tuple.
TaggedPrinter(e, av, printer) ==
  IF e = _STATIC_ENUM THEN Ok(StaticPrinter(av))
  ELSE IF e = _RAW_ENUM THEN Ok(RawPrinter(av, printer))
  ELSE IF e[1] = _CHUNK_ENUM_I
  THEN (IF Len(e) < 3 THEN Raise("IndexError") ELSE Ok(ChunkPrinter(av, e[2], e[3])))
  ELSE IF e[1] = _MSG_ENUM_I THEN Ok(MessagePrinter(av, Tail(e)))
  ELSE IF printer = NoPrinter THEN Raise("AssertionError")
  ELSE IF ~printer.has_views THEN Raise("KeyError")
  ELSE LET view == PyIndex(printer.views, e[1] - _VIEW_ENUM_I)
       IN IF ~view.ok THEN view ELSE Ok(ViewPrinter(av, view.val))

LookupRecovered(enums, actual_val) ==
  IF ~enums.ok THEN enums
  ELSE IF ~actual_val.ok THEN actual_val
  ELSE TaggedPrinter(enums.val, actual_val.val,
                     _match_printer(TypeStr(TypeUnqualified(actual_val.val.type))))

\* The branch of _lookup_type for a type text that holds "(****)".
LookupTagged(val) == LookupRecovered(extract_enums_tag(val), recover_value(val))

_lookup_type(val) ==
  IF HasQuad(TypeStr(TypeUnqualified(val.type))) THEN LookupTagged(val)
  ELSE _get_printer(val, TypeStr(TypeUnqualified(val.type)))

(***************************************************************************)
(* gdb's convenience variables and GdbConvenienceVars.                     *)
(***************************************************************************)
ConvNames == {"pp_b", "pp_e", "pp_it", "pp_self", "_b", "_e", "_it", "_end"}

\* What a convenience variable holds: nothing (gdb.convenience_variable gives
\* None), a value the session set before, the object handed to
\* get_member_value, or a cursor at a position of a sequence.
Unset == [kind |-> "unset", pos |-> 0]
UserVal == [kind |-> "user", pos |-> 0]
ObjVal == [kind |-> "obj", pos |-> 0]
Cursor(p) == [kind |-> "cursor", pos |-> p]

ConvIdle == [n \in ConvNames |-> Unset]

\* name[0] == "$"
StartsWithDollar(name) == name \in {"$pp_it"}

\* GdbConvenienceVars.__init__: for each pair, save the previous value and
\* set the new one; a name that starts with "$" raises ValueError.
RECURSIVE CvInit(_, _, _, _)
CvInit(c, pairs, i, saved) ==
  IF i > Len(pairs) THEN [ok |-> TRUE, conv |-> c, saved |-> saved]
  ELSE LET name == pairs[i][1]
           value == pairs[i][2]
       IN IF StartsWithDollar(name) THEN [ok |-> FALSE, conv |-> c, saved |-> saved]
          ELSE CvInit([c EXCEPT ![name] = value], pairs, i + 1,
                      Append(saved, <<name, c[name]>>))

RECURSIVE CvRestore(_, _, _)
CvRestore(c, saved, i) ==
  IF i > Len(saved) THEN c
  ELSE CvRestore([c EXCEPT ![saved[i][1]] = saved[i][2]], saved, i + 1)

\* A mutation of __exit__: a variable that was not set before is left alone
\* ("if prev is not None").
RECURSIVE CvRestoreSet(_, _, _)
CvRestoreSet(c, saved, i) ==
  IF i > Len(saved) THEN c
  ELSE CvRestoreSet(IF saved[i][2] = Unset THEN c
                    ELSE [c EXCEPT ![saved[i][1]] = saved[i][2]], saved, i + 1)

exit_keeps_unset(c, saved) == CvRestoreSet(c, saved, 1)

\* GdbConvenienceVars.__exit__
CvExit(c, saved) == CvRestore(c, saved, 1)

\* A scoped block that has been left: its names and what the convenience
\* variables held when it was entered.
Left(block, saved, before) ==
  [block |-> block,
   before |-> [n \in {saved[i][1] : i \in 1..Len(saved)} |-> before[n]]]

(***************************************************************************)
(* The sequences handed to emit_chunked_elements.                          *)
(***************************************************************************)
MaxN == 3        \* longest sequence (end - begin)
MaxK == 2        \* largest chunk_size

\* kind: what begin and end are ("ptr": raw pointers or wrappers of one,
\* "ra": iterators the evaluator can subtract and add to, "fwd": iterators it
\* can only increment); dist: end - begin; has_size, size: the third item of
\* the descriptor; k: chunk_size; eq, inc, deref: whether the evaluator
\* accepts ==, ++ and dereference on the iterators.
ScanCfg(kind, dist, has_size, size, k, eq, inc, deref) ==
  [kind |-> kind, dist |-> dist, has_size |-> has_size, size |-> size,
   k |-> k, eq |-> eq, inc |-> inc, deref |-> deref]

ScanCfgs ==
  {ScanCfg(kind, dist, FALSE, 0, k, TRUE, TRUE, TRUE) :
     kind \in {"ptr", "ra", "fwd"}, dist \in 0..MaxN, k \in 1..MaxK}
  \cup {ScanCfg("fwd", dist, FALSE, 0, k, broken # "eq", broken # "inc", broken # "deref") :
          dist \in {1, MaxN}, k \in 1..MaxK, broken \in {"eq", "inc", "deref"}}
  \cup {ScanCfg(kind, MaxN, TRUE, size, MaxK, TRUE, TRUE, TRUE) :
          kind \in {"ptr", "ra", "fwd"}, size \in {0, MaxN}}
  \cup {ScanCfg("ptr", 35, FALSE, 0, 16, TRUE, TRUE, TRUE)}

\* The gdb.Value of a cursor at position p: a pointer to int, or an Iter
\* object.  The inferior holds the cursor at address p + 1.
CursorValue(cfg, p) ==
  Value(p + 1, p, IF cfg.kind = "ptr" THEN TypePointer(NamedType("int", FALSE, FALSE))
                  ELSE NamedType("Iter", FALSE, FALSE))

\* The cursor a gdb.Value read back from the inferior stands for.
CursorOf(val) == Cursor(val.loc - 1)

\* One item of emit_chunked_elements: f"[{i}..{i+n-1}]" and the tag.
Chunk(cfg, i, n, p) ==
  [lo |-> i, hi |-> i + n - 1,
   tag |-> make_enums_tag(CursorValue(cfg, p), _CHUNK_ENUM(i, n)).val]

(***************************************************************************)
(* emit_chunked_elements, a generator: pc is "fresh" before the first      *)
(* next(), "open" while it is suspended at a yield, "done" once it has     *)
(* returned, raised or been closed.                                        *)
(***************************************************************************)
ScanFresh(cfg) ==
  [pc |-> "fresh", cfg |-> cfg, path |-> "", i |-> 0, length |-> 0,
   saved |-> <<>>, entry |-> ConvIdle, out |-> <<>>, err |-> "", raised |-> "",
   stopped |-> FALSE, closed |-> FALSE]

ScanIdle ==
  [ScanFresh(ScanCfg("", 0, FALSE, 0, 1, FALSE, FALSE, FALSE)) EXCEPT !.pc = "idle"]

\* What one next() of a generator leaves: the generator, the convenience
\* variables and the blocks it left.
Step(gen, c, ex) == [gen |-> gen, conv |-> c, exited |-> ex]

\* _has_random_access: a block over pp_b and pp_e in which "$pp_e - $pp_b"
\* and "$pp_b + 1" are evaluated; gdb.error gives False.
_has_random_access(c, cfg) ==
  LET en == CvInit(c, <<<<"pp_b", Cursor(0)>>, <<"pp_e", Cursor(cfg.dist)>>>>, 1, <<>>)
  IN [result |-> cfg.kind # "fwd",
      conv |-> CvExit(en.conv, en.saved),
      left |-> Left("_has_random_access", en.saved, c)]

\* n = chunk_size if i + chunk_size <= length else (length - i)
ChunkLen(sc, i) == IF i + sc.cfg.k <= sc.length THEN sc.cfg.k ELSE sc.length - i

\* Leaving the with block of the generator and returning.
ScanLeave(sc, c, err) ==
  Step([sc EXCEPT !.pc = "done", !.err = err], CvExit(c, sc.saved),
       {Left("emit_chunked_elements", sc.saved, sc.entry)})

\* 1) the pointer fast path, at "for i in range(0, length, chunk_size)"
RunPtr(sc, c, i) ==
  IF i < sc.length
  THEN Step([sc EXCEPT !.pc = "open", !.i = i,
                       !.out = Append(@, Chunk(sc.cfg, i, ChunkLen(sc, i), i))], c, {})
  ELSE Step([sc EXCEPT !.pc = "done"], c, {})

\* 2) the random-access path, inside its with block
RunRa(sc, c, i) ==
  IF i >= sc.length THEN ScanLeave(sc, c, "")
  ELSE IF c["_b"].kind # "cursor" THEN ScanLeave(sc, c, "gdb.error")
  ELSE Step([sc EXCEPT !.pc = "open", !.i = i,
                       !.out = Append(@, Chunk(sc.cfg, i, ChunkLen(sc, i), c["_b"].pos + i))],
            c, {})

\* _at_end(): "($_it == $_end)", False when the evaluator rejects it
AtEnd(cfg, it, c) == cfg.eq /\ it = c["_end"]

\* The inner loop of the forward scan: advance up to limit steps, or until
\* end when there is no size.
RECURSIVE Advance(_, _, _, _, _)
Advance(cfg, c, it, steps, limit) ==
  IF steps >= limit THEN [ok |-> TRUE, it |-> it, steps |-> steps]
  ELSE IF ~cfg.has_size /\ AtEnd(cfg, it, c) THEN [ok |-> TRUE, it |-> it, steps |-> steps]
  ELSE IF ~cfg.inc \/ it.kind # "cursor" THEN [ok |-> FALSE, it |-> it, steps |-> steps]
  ELSE Advance(cfg, c, Cursor(it.pos + 1), steps + 1, limit)

Min(a, b) == IF a <= b THEN a ELSE b

\* 3) the forward scan, at the head of its while loop
RunFwd(sc, c, i) ==
  LET cfg == sc.cfg
      total == cfg.size
      more == \/ cfg.has_size /\ i < total
              \/ ~cfg.has_size /\ ~AtEnd(cfg, c["_it"], c)
      limit == IF ~cfg.has_size THEN cfg.k ELSE Min(cfg.k, total - i)
      adv == Advance(cfg, c, c["_it"], 0, limit)
      c2 == [c EXCEPT !["_it"] = adv.it]
  IN IF ~more THEN ScanLeave(sc, c, "")
     ELSE IF ~adv.ok THEN ScanLeave(sc, c2, "gdb.error")
     ELSE IF adv.steps = 0 THEN ScanLeave(sc, c2, "")
     ELSE Step([sc EXCEPT !.pc = "open", !.i = i + adv.steps,
                          !.out = Append(@, Chunk(cfg, i, adv.steps, c["_it"].pos))],
               c2, {})

\* The first next(): from the top of the function to the first yield.
ScanStart(sc, c) ==
  LET cfg == sc.cfg
      probe == _has_random_access(c, cfg)
      ra == CvInit(probe.conv, <<<<"_b", Cursor(0)>>, <<"_e", Cursor(cfg.dist)>>>>, 1, <<>>)
      fw == CvInit(probe.conv, <<<<"_it", Cursor(0)>>, <<"_end", Cursor(cfg.dist)>>>>, 1, <<>>)
      r == IF probe.result
           THEN RunRa([sc EXCEPT !.path = "ra", !.saved = ra.saved, !.entry = probe.conv,
                         !.length = IF cfg.has_size THEN cfg.size
                                    ELSE ra.conv["_e"].pos - ra.conv["_b"].pos],
                      ra.conv, 0)
           ELSE RunFwd([sc EXCEPT !.path = "fwd", !.saved = fw.saved, !.entry = probe.conv],
                       fw.conv, 0)
  IN \* "begin, end = c_range_and_size" needs exactly two items
     IF cfg.has_size THEN Step([sc EXCEPT !.pc = "done", !.raised = "ValueError"], c, {})
     ELSE IF cfg.kind = "ptr"
     THEN RunPtr([sc EXCEPT !.path = "ptr",
                    !.length = IF cfg.has_size THEN cfg.size ELSE cfg.dist], c, 0)
     ELSE Step(r.gen, r.conv, r.exited \cup {probe.left})

\* A later next(): from the yield to the next one.
ScanResume(sc, c) ==
  IF sc.path = "ptr" THEN RunPtr(sc, c, sc.i + sc.cfg.k)
  ELSE IF sc.path = "ra" THEN RunRa(sc, c, sc.i + sc.cfg.k)
  ELSE RunFwd(sc, c, sc.i)

ScanPull ==
  /\ scan.pc \in {"fresh", "open"} /\ ~scan.stopped
  /\ Len(scan.out) <= MaxN
  /\ LET r == IF scan.pc = "fresh" THEN ScanStart(scan, conv) ELSE ScanResume(scan, conv)
     IN scan' = r.gen /\ conv' = r.conv /\ exited' = r.exited
  /\ UNCHANGED <<fmt, codec, reg, elems, disp, host>>

\* The host stops pulling and keeps the generator object.
ScanStop ==
  /\ scan.pc = "open" /\ ~scan.stopped
  /\ scan' = [scan EXCEPT !.stopped = TRUE]
  /\ exited' = {}
  /\ UNCHANGED <<fmt, codec, reg, conv, elems, disp, host>>

\* The generator object is finalised: GeneratorExit is raised at its yield.
ScanClose ==
  /\ scan.pc = "open"
  /\ LET sc == [scan EXCEPT !.closed = TRUE]
         r == IF scan.path = "ptr" THEN Step([sc EXCEPT !.pc = "done"], conv, {})
              ELSE ScanLeave(sc, conv, "")
     IN scan' = r.gen /\ conv' = r.conv /\ exited' = r.exited
  /\ UNCHANGED <<fmt, codec, reg, elems, disp, host>>

(***************************************************************************)
(* emit_elements, a generator made by ChunkPrinter.children.               *)
(***************************************************************************)
\* The generator objects of two ChunkPrinters the host can hold at a time.
ElemIds == {"A", "B"}

ElemFresh(it, offset, size) ==
  [pc |-> "fresh", it |-> it, offset |-> offset, size |-> size, i |-> 0,
   saved |-> <<>>, entry |-> ConvIdle, out |-> <<>>, err |-> "",
   stopped |-> FALSE, closed |-> FALSE]

ElemsIdle == [g \in ElemIds |-> [ElemFresh(Unset, 0, 0) EXCEPT !.pc = "idle"]]

ElemLeave(e, c, err) ==
  Step([e EXCEPT !.pc = "done", !.err = err], CvExit(c, e.saved),
           {Left("emit_elements", e.saved, e.entry)})

\* At "while i < size": the next yield, or the end of the block.
ElemYield(e, c, i, cfg) ==
  IF i >= e.size THEN ElemLeave(e, c, "")
  ELSE IF c["pp_it"].kind # "cursor" \/ ~cfg.deref THEN ElemLeave(e, c, "gdb.error")
  ELSE Step([e EXCEPT !.pc = "open", !.i = i,
                          !.out = Append(@, [label |-> e.offset + i,
                                             pos |-> c["pp_it"].pos])], c, {})

ElemStart(e, c, cfg) ==
  LET en == CvInit(c, <<<<"pp_it", e.it>>>>, 1, <<>>)
  IN ElemYield([e EXCEPT !.saved = en.saved, !.entry = c], en.conv, 0, cfg)

\* After a yield: "++$pp_it", i += 1
ElemResume(e, c, cfg) ==
  IF c["pp_it"].kind # "cursor" \/ ~cfg.inc THEN ElemLeave(e, c, "gdb.error")
  ELSE ElemYield(e, [c EXCEPT !["pp_it"] = Cursor(@.pos + 1)], e.i + 1, cfg)

Called(call, result) == [call |-> call, result |-> result]
HostIdle == Called("", Ok(NoObj))

\* The host expands chunk j: _lookup_type on its tag, then children() of the
\* ChunkPrinter it gets.
Expanded(g, r) ==
  /\ host' = IF r.ok THEN host ELSE Called("_lookup_type", r)
  /\ elems' = IF r.ok /\ r.val # NoObj /\ r.val.cls = "ChunkPrinter"
              THEN [elems EXCEPT ![g] = ElemFresh(CursorOf(r.val.val), r.val.offset,
                                                  r.val.chunk_size)]
              ELSE elems

ExpandChunk(g, j) ==
  /\ elems[g].pc = "idle"
  /\ j \in 1..Len(scan.out)
  /\ Expanded(g, _lookup_type(scan.out[j].tag))
  /\ exited' = {}
  /\ UNCHANGED <<fmt, codec, reg, conv, scan, disp>>

ElemsPull(g) ==
  /\ elems[g].pc \in {"fresh", "open"} /\ ~elems[g].stopped
  /\ LET r == IF elems[g].pc = "fresh" THEN ElemStart(elems[g], conv, scan.cfg)
              ELSE ElemResume(elems[g], conv, scan.cfg)
     IN elems' = [elems EXCEPT ![g] = r.gen] /\ conv' = r.conv /\ exited' = r.exited
  /\ UNCHANGED <<fmt, codec, reg, scan, disp, host>>

ElemsStop(g) ==
  /\ elems[g].pc = "open" /\ ~elems[g].stopped
  /\ elems' = [elems EXCEPT ![g].stopped = TRUE]
  /\ exited' = {}
  /\ UNCHANGED <<fmt, codec, reg, conv, scan, disp, host>>

ElemsClose(g) ==
  /\ elems[g].pc = "open"
  /\ LET r == ElemLeave([elems[g] EXCEPT !.closed = TRUE], conv, "")
     IN elems' = [elems EXCEPT ![g] = r.gen] /\ conv' = r.conv /\ exited' = r.exited
  /\ UNCHANGED <<fmt, codec, reg, scan, disp, host>>

(***************************************************************************)
(* The helpers that open a block and leave it within one call.             *)
(***************************************************************************)
\* A block over pp_self in which f"$pp_self.{member_name}()" is evaluated.
SelfBlock(block, c, works) ==
  LET en == CvInit(c, <<<<"pp_self", ObjVal>>>>, 1, <<>>)
  IN [ok |-> works, conv |-> CvExit(en.conv, en.saved), left |-> Left(block, en.saved, c)]

call0(c, works) == SelfBlock("call0", c, works)

\* member is what val[member_name] finds: a data member, a method gdb can
\* call, an overloaded method (val[...] raises, the evaluator can call it),
\* or nothing the evaluator knows.
get_member_value(c, member) ==
  LET fallback == SelfBlock("get_member_value", c, member = "overloaded")
      last == call0(fallback.conv, FALSE)
  IN IF member = "data" THEN [result |-> Ok(NoValue), conv |-> c, exited |-> {}]
     ELSE IF member = "method" THEN [result |-> Ok(ObjVal), conv |-> c, exited |-> {}]
     ELSE IF fallback.ok
     THEN [result |-> Ok(ObjVal), conv |-> fallback.conv, exited |-> {fallback.left}]
     ELSE [result |-> Ok(NoValue), conv |-> last.conv,
           exited |-> {fallback.left, last.left}]

GetMember(member) ==
  /\ scan.pc # "idle"
  /\ LET r == get_member_value(conv, member)
     IN /\ host' = Called("get_member_value", r.result)
        /\ conv' = r.conv /\ exited' = r.exited
  /\ UNCHANGED <<fmt, codec, reg, scan, elems, disp>>

\* _is_random_access(it): a block over pp_it in which "$pp_it + 1" is
\* evaluated; gdb.error gives False.
_is_random_access(c, cfg) ==
  LET en == CvInit(c, <<<<"pp_it", Cursor(0)>>>>, 1, <<>>)
  IN [result |-> Ok([bool |-> cfg.kind # "fwd"]), conv |-> CvExit(en.conv, en.saved),
      exited |-> {Left("_is_random_access", en.saved, c)}]

\* _is_forward(it) and _is_bidirectional(it) hand GdbConvenienceVars the name
\* and the value as two arguments: "for name, value in" unpacks the five
\* characters of "pp_it" and raises ValueError before anything is set.
_is_forward(c, cfg) == [result |-> Raise("ValueError"), conv |-> c, exited |-> {}]
_is_bidirectional(c, cfg) == [result |-> Raise("ValueError"), conv |-> c, exited |-> {}]

Probe(name) ==
  /\ scan.pc # "idle"
  /\ LET r == IF name = "_is_random_access" THEN _is_random_access(conv, scan.cfg)
              ELSE IF name = "_is_forward" THEN _is_forward(conv, scan.cfg)
              ELSE _is_bidirectional(conv, scan.cfg)
     IN host' = Called(name, r.result) /\ conv' = r.conv /\ exited' = r.exited
  /\ UNCHANGED <<fmt, codec, reg, scan, elems, disp>>

(***************************************************************************)
(* The fields of the inferior's types, and the children the renderers emit.*)
(***************************************************************************)
\* A gdb.Field: its name (Absent when field.name is None), whether it is a
\* base class, whether it is static (it has no bitpos), and whether fetching
\* it from a value fails.
Field(name, is_base_class, static, fails) ==
  [name |-> name, is_base_class |-> is_base_class, static |-> static, fails |-> fails]

\* val.type.fields(), for a struct
Fields(name) ==
  IF name = "ColorRGBA"
  THEN <<Field("r", FALSE, FALSE, FALSE), Field("g", FALSE, FALSE, FALSE),
         Field("b", FALSE, FALSE, FALSE), Field("a", FALSE, FALSE, FALSE)>>
  ELSE IF name = "mystruct"
  THEN <<Field("Base", TRUE, FALSE, FALSE), Field("x", FALSE, FALSE, FALSE),
         Field("gone", FALSE, FALSE, TRUE), Field("y", FALSE, FALSE, FALSE),
         Field("s_gone", FALSE, TRUE, TRUE), Field("s_count", FALSE, TRUE, FALSE)>>
  ELSE IF name = "Iter"
  THEN <<Field("cur", FALSE, FALSE, FALSE), Field("s_made", FALSE, TRUE, FALSE)>>
  ELSE IF name = "Anon"
  THEN <<Field(Absent, FALSE, TRUE, FALSE), Field("u", FALSE, FALSE, FALSE),
         Field(Absent, FALSE, FALSE, FALSE)>>
  ELSE <<>>

\* The label of a child: what kind of entry it is, its text, and the index of
\* a view or of an element.
Label(kind, text, n) == [kind |-> kind, text |-> text, n |-> n]

\* A child: its label and a gdb.Value ("value"), None ("none") or a Python
\* string ("str").
Item(label, kind, val) == [label |-> label, kind |-> kind, val |-> val]

PyText(text) == [str |-> text]

\* What children() gave the host: the items yielded, and the exception that
\* ended the sequence, if one did.
Kids(items, raised) == [items |-> items, raised |-> raised]

\* val[field.name]
FieldValue(val, f) == Value(val.loc, 0, NamedType("int", FALSE, FALSE))

\* The body of the loop of emit_raw_children for one field: nothing, one
\* item, or an exception.
RawEntry(val, f) ==
  IF f.name = Absent THEN Ok(<<>>)
  ELSE IF f.is_base_class
  THEN (IF ~lookup_type(<<W(f.name)>>).ok THEN Raise("gdb.error")
        ELSE Ok(<<Item(Label("base", f.name, 0), "value",
                       Value(val.loc, 0, lookup_type(<<W(f.name)>>).val))>>))
  ELSE IF ~f.static
  THEN (IF f.fails THEN Raise("gdb.error")
        ELSE Ok(<<Item(Label("field", f.name, 0), "value", FieldValue(val, f))>>))
  ELSE Ok(<<>>)

\* The body of the loop of emit_static_children for one field.
StaticEntry(val, f) ==
  IF f.name = Absent THEN Ok(<<>>)
  ELSE IF ~f.static THEN Ok(<<>>)
  ELSE IF f.fails THEN Raise("gdb.error")
  ELSE Ok(<<Item(Label("field", f.name, 0), "value", FieldValue(val, f))>>)

\* The loops of emit_raw_children and emit_static_children: the try is around
\* the whole loop, so the first exception ends the sequence.
RECURSIVE EmitFields(_, _, _, _, _)
EmitFields(val, fields, i, static, items) ==
  IF i > Len(fields) THEN items
  ELSE LET e == IF static THEN StaticEntry(val, fields[i]) ELSE RawEntry(val, fields[i])
       IN IF ~e.ok THEN items
          ELSE EmitFields(val, fields, i + 1, static, items \o e.val)

\* val.type.fields() raises TypeError for a type that has no fields.
emit_raw_children(val) ==
  IF TypeCode(val.type) # "struct" THEN Kids(<<>>, "")
  ELSE Kids(EmitFields(val, Fields(val.type.name), 1, FALSE, <<>>), "")

emit_static_children(val) ==
  IF TypeCode(val.type) # "struct" THEN Kids(<<>>, "")
  ELSE Kids(EmitFields(val, Fields(val.type.name), 1, TRUE, <<>>), "")

has_static(val) ==
  /\ TypeCode(val.type) = "struct"
  /\ \E i \in 1..Len(Fields(val.type.name)) : Fields(val.type.name)[i].static

\* Whether the n-th call of a node's accessor raises.
CallFails(node, n) == node.fails = "always" \/ (node.fails = "second" /\ n = 2)

\* children() of the object a view's "node" class makes: it has no try.
RECURSIVE NodeChildren(_, _, _, _)
NodeChildren(val, nodes, i, items) ==
  IF i > Len(nodes) THEN Kids(items, "")
  ELSE IF CallFails(nodes[i], 1) THEN Kids(items, "gdb.error")
  ELSE NodeChildren(val, nodes, i + 1,
                    Append(items, Item(Label("node", nodes[i].label, 0), "value",
                                       FieldValue(val, nodes[i]))))

\* The loop of ViewPrinter.children over "nodes": func(self.val) is called
\* for the log line before the try, and again inside it.
RECURSIVE NodesChildren(_, _, _, _)
NodesChildren(val, nodes, i, items) ==
  IF i > Len(nodes) THEN Kids(items, "")
  ELSE IF CallFails(nodes[i], 1) THEN Kids(items, "gdb.error")
  ELSE NodesChildren(val, nodes, i + 1,
         Append(items,
                IF CallFails(nodes[i], 2)
                THEN Item(Label("node", nodes[i].label, 0), "str", PyText("<error>"))
                ELSE Item(Label("node", nodes[i].label, 0), "value",
                          FieldValue(val, nodes[i]))))

\* ViewPrinter.children: the branch for "elements" is commented out, so a
\* view's "elements" is never called.
ViewChildren(val, view) ==
  IF view.mode = "node" THEN NodeChildren(val, view.nodes, 1, <<>>)
  ELSE IF view.mode \in {"nodes", "nodes+elements"}
  THEN NodesChildren(val, view.nodes, 1, <<>>)
  ELSE Kids(<<>>, "")

count_views(printer) ==
  IF printer # NoPrinter /\ printer.has_views THEN Len(printer.views) ELSE 0

\* get_view_named: the first view of that name, or None
get_view_named(printer, name) ==
  LET hits == {i \in 1..count_views(printer) : printer.views[i].name = name}
  IN IF hits = {} THEN NoView
     ELSE printer.views[CHOOSE i \in hits : \A j \in hits : i <= j]

\* self.printer["default_view"] if the spec has one, else None
DefaultViewName(printer) == IF printer = NoPrinter THEN Absent ELSE printer.default_view

\* The entries DefaultPrinter.children yields after the top-level view:
\* "<Static>", "<Raw>" and one "<name>" for every view but the default one.
TagItem(val, label, enum_tuple) == Item(label, "value", make_enums_tag(val, enum_tuple).val)

\* A mutation of the views loop: the default view gets an entry as well.
view_entries_all(val, printer) ==
  [j \in 1..count_views(printer) |->
     TagItem(val, Label("view", printer.views[j].name, j - 1), _VIEW_ENUM(j - 1))]

ViewEntries(val, printer) ==
  LET shown == SelectSeq([i \in 1..count_views(printer) |-> i],
                         LAMBDA i : printer.views[i].name # DefaultViewName(printer))
  IN [j \in 1..Len(shown) |->
        TagItem(val, Label("view", printer.views[shown[j]].name, shown[j] - 1),
                _VIEW_ENUM(shown[j] - 1))]

\* A mutation of the entries: "<Raw>" whenever the spec has a view, with or
\* without a default_view.
tag_entries_raw_always(val, printer) ==
  (IF has_static(val) THEN <<TagItem(val, Label("static", "Static", 0), _STATIC_ENUM)>>
   ELSE <<>>)
  \o (IF count_views(printer) > 0
      THEN <<TagItem(val, Label("raw", "Raw", 0), _RAW_ENUM)>> \o ViewEntries(val, printer)
      ELSE <<>>)

TagEntries(val, printer) ==
  (IF has_static(val) THEN <<TagItem(val, Label("static", "Static", 0), _STATIC_ENUM)>>
   ELSE <<>>)
  \o (IF count_views(printer) > 0 /\ DefaultViewName(printer) # Absent
      THEN <<TagItem(val, Label("raw", "Raw", 0), _RAW_ENUM)>> ELSE <<>>)
  \o (IF count_views(printer) > 0 THEN ViewEntries(val, printer) ELSE <<>>)

\* A mutation of the top-level view: the default view is used without the
\* test for None.
top_level_needs_view(val, printer, default_view) ==
  IF count_views(printer) = 0 \/ DefaultViewName(printer) = Absent
  THEN emit_raw_children(val)
  ELSE IF default_view = NoView THEN Kids(<<>>, "TypeError")
  ELSE ViewChildren(val, default_view)

\* The top-level view of DefaultPrinter.children
TopLevel(val, printer, default_view) ==
  IF count_views(printer) = 0 \/ DefaultViewName(printer) = Absent
  THEN emit_raw_children(val)
  ELSE IF default_view = NoView THEN Kids(<<>>, "")
  ELSE ViewChildren(val, default_view)

DefaultChildren(val, printer) ==
  LET top == TopLevel(val, printer, get_view_named(printer, DefaultViewName(printer)))
  IN IF top.raised # "" THEN top ELSE Kids(top.items \o TagEntries(val, printer), "")

ArrayChildren(val) ==
  Kids([i \in 1..val.type.chain[Len(val.type.chain)].n |->
          Item(Label("index", "", i - 1), "value",
               Value(val.loc, 0, [val.type EXCEPT !.chain = SubSeq(@, 1, Len(@) - 1)]))], "")

\* children() of a printer object.  The children of a ChunkPrinter are the
\* emit_elements generator above.
children(obj) ==
  IF obj.cls = "DefaultPrinter" THEN DefaultChildren(obj.val, obj.printer)
  ELSE IF obj.cls = "RawPrinter" THEN emit_raw_children(obj.val)
  ELSE IF obj.cls = "StaticPrinter" THEN emit_static_children(obj.val)
  ELSE IF obj.cls = "ViewPrinter" THEN ViewChildren(obj.val, obj.view)
  ELSE IF obj.cls = "ArrayPrinter" THEN ArrayChildren(obj.val)
  ELSE IF obj.cls = "MessagePrinter"
  THEN Kids(<<Item(Label("msg", "Parent node is a message", 0), "none", NoValue)>>, "")
  ELSE Kids(<<>>, "")

\* to_string() of a printer object, as the kind of text it returns: the text
\* of a summary, the text that names a default view that is not there, the
\* message of a MessagePrinter, the elements of an array, or nothing.
DefaultToString(printer, default_view) ==
  IF count_views(printer) = 0 \/ DefaultViewName(printer) = Absent
  THEN (IF printer # NoPrinter /\ printer.summary THEN PyText("summary") ELSE PyText(""))
  ELSE IF default_view = NoView THEN PyText("<default_view not defined>")
  ELSE IF default_view.summary THEN PyText("summary")
  ELSE PyText("")

to_string(obj) ==
  IF obj.cls = "DefaultPrinter"
  THEN DefaultToString(obj.printer, get_view_named(obj.printer, DefaultViewName(obj.printer)))
  ELSE IF obj.cls = "RawPrinter"
  THEN (IF obj.printer # NoPrinter /\ obj.printer.summary THEN PyText("summary")
        ELSE PyText(""))
  ELSE IF obj.cls = "ViewPrinter"
  THEN (IF obj.view.summary THEN PyText("summary") ELSE PyText(""))
  ELSE IF obj.cls = "MessagePrinter" THEN PyText("message")
  ELSE IF obj.cls = "ArrayPrinter" THEN PyText("length")
  ELSE PyText("")

(***************************************************************************)
(* summary(): the function it returns renders the instance fields of a     *)
(* value as "{ f1=v1, f2=v2 }" within a soft limit on the length.  A text  *)
(* is the sequence of the pieces it was put together from, each with its   *)
(* length; a piece that is the entry of a field carries the field's index. *)
(***************************************************************************)
MaxFields == 3   \* most fields of a type
MaxText == 3     \* longest text of the value of one field
MaxLen == 8      \* largest max_len

Piece(t, n, i) == [t |-> t, n |-> n, i |-> i]

\* len(text)
RECURSIVE TextLen(_)
TextLen(text) == IF text = <<>> THEN 0 ELSE Head(text).n + TextLen(Tail(text))

\* A field as summary_fn sees it.  kind: "data", "nested" (gdb has a printer
\* for the value), "bad" (fetching the value raises), "static" (the field has
\* no bitpos) or "base" (a base class); n: the length of the value's text.
SField(kind, n) == [kind |-> kind, n |-> n]

\* (getattr(field, "is_base_class", False) is False
\*    and getattr(field, "bitpos", False)) is not False
IsInstanceField(f) == f.kind \notin {"base", "static"}

\* A mutation of the test: ">" for ">=".
too_long_strict(summary, max_len) == TextLen(summary) > max_len

\* len(summary) >= max_len
TooLong(summary, max_len) == TextLen(summary) >= max_len

\* The length of v_to_str(v, max_len): the printer's
\* to_string(max(0, max_len - len(summary) - 2)), which is "..." for a limit
\* of 0, or str(v).
v_to_str(f, summary, max_len) ==
  IF f.kind = "nested" /\ max_len - TextLen(summary) - 2 <= 0 THEN 3 ELSE f.n

\* field_entry: the text of the value, after f.name + "=" when named (the
\* names of the fields are one character long).
field_entry(f, i, summary, max_len, named) ==
  IF f.kind = "bad" THEN Raise("gdb.error")
  ELSE Ok(Piece("field", (IF named THEN 2 ELSE 0) + v_to_str(f, summary, max_len), i))

\* The locals of summary_fn: summary and field_count, and with them the
\* fields the loops have visited, those whose value was fetched, the field at
\* which the text was cut, and the exception that was caught.
SumState(summary, field_count, visited, called, cut, err) ==
  [summary |-> summary, field_count |-> field_count, visited |-> visited,
   called |-> called, cut |-> cut, err |-> err]

\* The first loop: up to the first instance field, which is appended to
\* "{ " unless "{ " is too long already.  next is where the second loop
\* starts.
RECURSIVE FirstLoop(_, _, _, _, _)
FirstLoop(fields, i, max_len, named, visited) ==
  IF i > Len(fields)
  THEN [st |-> SumState(<<Piece("{ ", 2, 0)>>, 0, visited, <<>>, 0, ""), next |-> i]
  ELSE IF ~IsInstanceField(fields[i])
  THEN FirstLoop(fields, i + 1, max_len, named, Append(visited, i))
  ELSE IF TooLong(<<Piece("{ ", 2, 0)>>, max_len)
  THEN [st |-> SumState(<<Piece("{...}", 5, 0)>>, 0, Append(visited, i), <<>>, i, ""),
        next |-> i + 1]
  ELSE IF ~field_entry(fields[i], i, <<Piece("{ ", 2, 0)>>, max_len, named).ok
  THEN [st |-> SumState(<<Piece("{ ", 2, 0)>>, 0, Append(visited, i), <<i>>, 0,
                        "gdb.error"),
        next |-> i + 1]
  ELSE [st |-> SumState(<<Piece("{ ", 2, 0),
                          field_entry(fields[i], i, <<Piece("{ ", 2, 0)>>, max_len,
                                      named).val>>,
                        1, Append(visited, i), <<i>>, 0, ""),
        next |-> i + 1]

\* One instance field in the second loop: ", ..." and out when the text is
\* too long, else ", " and the entry.
RestField(j, st, e) ==
  IF ~e.ok THEN [st EXCEPT !.called = Append(@, j), !.err = e.err]
  ELSE [st EXCEPT !.summary = @ \o <<Piece(", ", 2, 0), e.val>>,
                  !.field_count = @ + 1, !.called = Append(@, j)]

\* The second loop, over the fields after the first instance field.
RECURSIVE RestLoop(_, _, _, _, _)
RestLoop(fields, j, max_len, named, st) ==
  IF j > Len(fields) \/ st.err # "" THEN st
  ELSE IF ~IsInstanceField(fields[j])
  THEN RestLoop(fields, j + 1, max_len, named, [st EXCEPT !.visited = Append(@, j)])
  ELSE IF TooLong(st.summary, max_len)
  THEN [st EXCEPT !.visited = Append(@, j), !.cut = j,
                  !.summary = Append(@, Piece(", ...", 5, 0))]
  ELSE RestLoop(fields, j + 1, max_len, named,
                RestField(j, [st EXCEPT !.visited = Append(@, j)],
                          field_entry(fields[j], j, st.summary, max_len, named)))

\* if summary != "{...}": the second loop, then " }" or "{}"
AfterFirst(fields, max_len, named, first) ==
  IF first.st.summary = <<Piece("{...}", 5, 0)>> \/ first.st.err # "" THEN first.st
  ELSE RestLoop(fields, first.next, max_len, named, first.st)

\* The end of summary_fn: the text of the exception, or the braces after the
\* type (val.type and a blank, ten characters) when show_type.
Braced(st, show_type) ==
  IF st.err # "" THEN [st EXCEPT !.summary = <<Piece("<summary exception>", 19, 0)>>]
  ELSE [st EXCEPT !.summary =
          (IF show_type THEN <<Piece("type", 10, 0)>> ELSE <<>>)
          \o (IF @ = <<Piece("{...}", 5, 0)>> THEN @
              ELSE IF st.field_count > 0 THEN Append(@, Piece(" }", 2, 0))
              ELSE <<Piece("{}", 2, 0)>>)]

summary_fn(fields, max_len, named, show_type) ==
  Braced(AfterFirst(fields, max_len, named, FirstLoop(fields, 1, max_len, named, <<>>)),
         show_type)

\* One call of a function summary() returned.
FmtFresh(fields, max_len, named, show_type) ==
  [pc |-> "fresh", fields |-> fields, max_len |-> max_len, named |-> named,
   show_type |-> show_type, out |-> SumState(<<>>, 0, <<>>, <<>>, 0, "")]

FmtIdle == [FmtFresh(<<>>, 0, FALSE, FALSE) EXCEPT !.pc = "idle"]

SFields ==
  {SField("data", 1), SField("data", MaxText), SField("nested", MaxText),
   SField("bad", 1), SField("static", 1), SField("base", 1)}

Summarise ==
  /\ fmt.pc = "fresh"
  /\ fmt' = [fmt EXCEPT !.pc = "done",
                        !.out = summary_fn(fmt.fields, fmt.max_len, fmt.named,
                                           fmt.show_type)]
  /\ host' = Called("summary_fn", Ok(NoObj))
  /\ UNCHANGED <<codec, reg, conv, scan, elems, exited, disp>>

(***************************************************************************)
(* The host and the dispatch engine: the host hands a value to             *)
(* _lookup_type, asks the printer it gets for to_string() and children(),  *)
(* and hands a child back to _lookup_type when the user expands it.        *)
(***************************************************************************)
MaxDepth == 2    \* how deep below the first value the host expands

\* How the value being rendered was come by: as a value of the program
\* ("root"), or as the child with this label of the printer object parent.
Via(kind, n, parent) == [kind |-> kind, n |-> n, parent |-> parent]

Disp(pc, val, obj, str, kids, via, depth) ==
  [pc |-> pc, val |-> val, obj |-> obj, str |-> str, kids |-> kids, via |-> via,
   depth |-> depth]

DispIdle ==
  Disp("idle", NoValue, Ok(NoObj), PyText(""), Kids(<<>>, ""), Via("root", 0, NoObj), 0)

\* Printer specs next to those of gdb_test_printers.py: ColorRGBA's with its
\* default_view line in force, one whose default_view names no view, one
\* with accessors that raise, and one for an array type.
AlphaPrinter == Printer(TRUE, "Alpha", TRUE, ColorViews)
MisnamedPrinter == Printer(TRUE, "Alfa", TRUE, ColorViews)

BrokenPrinter ==
  Printer(FALSE, Absent, TRUE,
  <<View("Broken", FALSE, "nodes",
         <<Node("first", "never"), Node("bad", "always"), Node("last", "never")>>),
    View("Flaky", TRUE, "nodes", <<Node("once", "second"), Node("after", "never")>>),
    View("Class", FALSE, "node", <<Node("head", "never"), Node("tail", "always")>>)>>)

PairPrinter ==
  Printer(FALSE, Absent, TRUE, <<View("Pair", FALSE, "nodes", <<Node("lo", "never")>>)>>)

\* A spec whose default view is made by a class whose children() raises, and
\* one with a container-like view: nodes followed by "elements", and a view
\* of "elements" alone.
ClassFirstPrinter == Printer(FALSE, "Class", TRUE, BrokenPrinter.views)

TailPrinter ==
  Printer(FALSE, Absent, TRUE,
  <<View("Tail", FALSE, "nodes+elements", <<Node("head", "never"), Node("next", "never")>>),
    View("Only", FALSE, "elements", <<>>)>>)

\* The registry after the calls of add_printer and add_re_printer in calls.
RECURSIVE Registered(_, _, _)
Registered(r, calls, i) ==
  IF i > Len(calls) THEN r
  ELSE Registered(IF calls[i][1] = "exact" THEN WithPrinter(r, calls[i][2], calls[i][3])
                  ELSE WithRePrinter(r, calls[i][2], calls[i][3]),
                  calls, i + 1)

DispRegs ==
  {Registered(RegIdle, calls, 1) : calls \in
     {<<(<<"exact", <<W("ColorRGBA")>>, ColorPrinter>>),
        (<<"exact", <<W("mystruct")>>, MyStructPrinter>>)>>,
      <<(<<"exact", <<W("ColorRGBA")>>, AlphaPrinter>>),
        (<<"exact", <<W("Iter")>>, AlphaPrinter>>),
        (<<"re", <<W("int"), W(" ")>>, PairPrinter>>)>>,
      <<(<<"exact", <<W("mystruct")>>, BrokenPrinter>>),
        (<<"exact", <<W("int"), W(" "), D(2)>>, PairPrinter>>)>>,
      <<(<<"exact", <<W("ColorRGBA")>>, MisnamedPrinter>>),
        (<<"exact", <<W("Iter")>>, MisnamedPrinter>>)>>,
      <<(<<"exact", <<W("mystruct")>>, ClassFirstPrinter>>),
        (<<"exact", <<W("Iter")>>, TailPrinter>>)>>}}

\* The values of the program the host renders.
PlainValues ==
  {Value(1, 0, NamedType(n, c, FALSE)) : n \in KnownTypeNames \ {"Base"}, c \in BOOLEAN}
  \cup {Value(1, 0, ArrayType(n, FALSE, FALSE, <<2>>)) : n \in TypeNames}

\* Tagged values nothing in the engine makes, which a session can still hand
\* to it: a VIEW tag for a type with no spec, or with no views, or past the
\* views; a CHUNK tag with too few components; a kind that is none of them.
OddValues ==
  {make_enums_tag(Value(1, 0, NamedType(n, FALSE, FALSE)), e).val :
     n \in {"ColorRGBA", "mystruct", "Iter"},
     e \in {<<4>>, <<7>>, <<3>>, <<3, 0>>, <<3, 0, 1>>, <<0, 1>>, <<1, 1>>}}

\* Values of the program whose type is a quadruple pointer to an array, e.g.
\* "int (****)[2]": the text holds "(****)" and is not the text of a tag.
QuadValues ==
  {Value(1, 0, TypePointer(TypePointer(TypePointer(TypePointer(
                 ArrayType(n, FALSE, FALSE, <<2>>)))))) : n \in TypeNames}

Looked(val, r, via, depth) ==
  Disp("looked", val, r, PyText(""), Kids(<<>>, ""), via, depth)

\* The host renders a value of the program: gdb calls _lookup_type(val).
Dispatch(val) ==
  /\ disp.pc = "idle"
  /\ disp' = Looked(val, _lookup_type(val), Via("root", 0, NoObj), 0)
  /\ host' = Called("_lookup_type", IF disp'.obj.ok THEN Ok(NoObj) ELSE disp'.obj)
  /\ UNCHANGED <<fmt, codec, reg, conv, scan, elems, exited>>

HasPrinter == disp.obj.ok /\ disp.obj.val # NoObj

\* The host asks the printer for its text.
AskString ==
  /\ disp.pc = "looked" /\ HasPrinter
  /\ disp' = [disp EXCEPT !.pc = "named", !.str = to_string(disp.obj.val)]
  /\ host' = Called("to_string", Ok(NoObj))
  /\ UNCHANGED <<fmt, codec, reg, conv, scan, elems, exited>>

\* The host pulls the children of the printer, to the end or to the
\* exception that ends them.
Children ==
  /\ disp.pc \in {"looked", "named"} /\ HasPrinter
  /\ disp.obj.val.cls # "ChunkPrinter"
  /\ disp' = [disp EXCEPT !.pc = "expanded", !.kids = children(disp.obj.val)]
  /\ host' = Called("children", IF disp'.kids.raised = "" THEN Ok(NoObj)
                                ELSE Raise(disp'.kids.raised))
  /\ UNCHANGED <<fmt, codec, reg, conv, scan, elems, exited>>

\* The user expands child j: gdb calls _lookup_type on its value.
Select(j) ==
  /\ disp.pc = "expanded" /\ disp.depth < MaxDepth
  /\ j \in 1..Len(disp.kids.items)
  /\ disp.kids.items[j].kind = "value"
  /\ disp' = Looked(disp.kids.items[j].val, _lookup_type(disp.kids.items[j].val),
                    Via(disp.kids.items[j].label.kind, disp.kids.items[j].label.n,
                        disp.obj.val),
                    disp.depth + 1)
  /\ host' = Called("_lookup_type", IF disp'.obj.ok THEN Ok(NoObj) ELSE disp'.obj)
  /\ UNCHANGED <<fmt, codec, reg, conv, scan, elems, exited>>

InitDispatch ==
  /\ reg \in DispRegs
  /\ codec = CodecIdle /\ conv = ConvIdle /\ scan = ScanIdle
  /\ elems = ElemsIdle /\ exited = {} /\ disp = DispIdle /\ host = HostIdle
  /\ fmt = FmtIdle

DispatchNext ==
  \/ \E val \in PlainValues \cup OddValues \cup QuadValues : Dispatch(val)
  \/ AskString
  \/ Children
  \/ \E j \in 1..(Len(ColorViews) + 4) : Select(j)

SpecDispatch == InitDispatch /\ [][DispatchNext]_vars

(***************************************************************************)
(* The dispatch engine's properties.                                       *)
(***************************************************************************)
\* The host has handed the "<name>" entry of a DefaultPrinter to _lookup_type.
ViewSelected == disp.pc = "looked" /\ disp.via.kind = "view"

\* The renderer of view i of the spec that emitted the entry, on its value.
IsViewOfParent ==
  /\ disp.obj.ok
  /\ disp.obj.val # NoObj
  /\ disp.obj.val.cls = "ViewPrinter"
  /\ disp.obj.val.view = disp.via.parent.printer.views[disp.via.n + 1]
  /\ disp.obj.val.val = disp.via.parent.val

\* C4: the "<name>" entry the top-level renderer emits for view i with the
\* tag VIEW(i) re-dispatches to the renderer of view i of the same spec.
C4_ViewOrderingStability == ViewSelected => IsViewOfParent

\* What does hold of the view entries: those of a value that is not an array
\* re-dispatch to their view.
ViewStabilityOfStructs ==
  (ViewSelected /\ TypeCode(disp.via.parent.val.type) # "array") => IsViewOfParent

ViewStabilityWitness ==
  /\ ViewSelected /\ IsViewOfParent
  /\ disp.via.n = Len(ColorViews) - 1
  /\ disp.via.parent.val.type.c

\* C9: nothing the host calls raises: _lookup_type returns a renderer or
\* none, and children() and to_string() of the renderer return.
C9_NeverRaises == host.result.ok

\* What does hold of the engine's boundary: _lookup_type on a value that
\* carries no tag returns.
PlainDispatchReturns ==
  (disp.pc = "looked" /\ ~HasQuad(TypeStr(TypeUnqualified(disp.val.type)))) => disp.obj.ok

\* What the host sees of a child sequence: each label, and whether its value
\* is the text "<error>".
Shown(items) ==
  [j \in 1..Len(items) |->
     [label |-> items[j].label.text,
      error |-> items[j].kind = "str" /\ items[j].val = PyText("<error>")]]

\* The child sequence with every failure isolated: one child per accessor of
\* a nodes list, "<error>" for those that fail.
IsolatedNodes(nodes) ==
  [j \in 1..Len(nodes) |-> [label |-> nodes[j].label, error |-> nodes[j].fails # "never"]]

\* One child per field the Raw (or Static) expansion shows, "<error>" for
\* those whose fetch fails.
IsolatedFields(val, static) ==
  LET shown == SelectSeq(Fields(val.type.name),
                         LAMBDA f : /\ f.name # Absent
                                    /\ IF static THEN f.static
                                       ELSE f.is_base_class \/ ~f.static)
  IN [j \in 1..Len(shown) |->
        [label |-> shown[j].name,
         error |-> IF shown[j].is_base_class THEN ~lookup_type(<<W(shown[j].name)>>).ok
                   ELSE shown[j].fails]]

Rendered(cls) == disp.pc = "expanded" /\ disp.obj.val.cls = cls

IsStruct == TypeCode(disp.obj.val.val.type) = "struct"

FieldItems(items) == SelectSeq(items, LAMBDA x : x.label.kind \in {"field", "base"})

\* C10: a failing field or accessor is one child with the value "<error>",
\* and every sibling before and after it is emitted: in a view's nodes list,
\* in the Raw and Static expansions and in the top-level raw expansion.
C10_FailureIsolation ==
  /\ (Rendered("ViewPrinter") /\ disp.obj.val.view.mode = "nodes")
       => /\ disp.kids.raised = ""
          /\ Shown(disp.kids.items) = IsolatedNodes(disp.obj.val.view.nodes)
  /\ (Rendered("RawPrinter") /\ IsStruct)
       => Shown(disp.kids.items) = IsolatedFields(disp.obj.val.val, FALSE)
  /\ (Rendered("StaticPrinter") /\ IsStruct)
       => Shown(disp.kids.items) = IsolatedFields(disp.obj.val.val, TRUE)
  /\ (Rendered("DefaultPrinter") /\ IsStruct /\ disp.kids.raised = ""
        /\ (count_views(disp.obj.val.printer) = 0
              \/ DefaultViewName(disp.obj.val.printer) = Absent))
       => Shown(FieldItems(disp.kids.items)) = IsolatedFields(disp.obj.val.val, FALSE)

\* What does hold of a nodes list: an accessor that returns when it is first
\* called and raises when it is called again is shown as "<error>" between
\* its siblings; one that raises when it is first called ends the sequence
\* with that exception, after the siblings before it.
NodesIsolation ==
  (Rendered("ViewPrinter") /\ disp.obj.val.view.mode = "nodes")
    => LET nodes == disp.obj.val.view.nodes
           bad == {j \in 1..Len(nodes) : nodes[j].fails = "always"}
           upto == IF bad = {} THEN Len(nodes)
                   ELSE (CHOOSE j \in bad : \A k \in bad : j <= k) - 1
       IN /\ (disp.kids.raised # "") = (bad # {})
          /\ Shown(disp.kids.items) = SubSeq(IsolatedNodes(nodes), 1, upto)

NodesIsolationWitness ==
  /\ Rendered("ViewPrinter") /\ disp.obj.val.view.name = "Flaky"
  /\ Len(disp.kids.items) = 2 /\ Shown(disp.kids.items)[1].error

\* Whether the type of val declares class-level fields (fields without storage).
HasClassFields(val) ==
  \E i \in 1..Len(Fields(val.type.name)) : Fields(val.type.name)[i].static

\* What a sibling entry is to the host: its label, and the tuple and the value
\* its synthetic tag decodes to.
Decoded(item) ==
  [text |-> item.label.text, tag |-> extract_enums_tag(item.val),
   of |-> recover_value(item.val)]

SiblingEntry(text, enum_tuple, val) == [text |-> text, tag |-> Ok(enum_tuple), of |-> Ok(val)]

DecodedFrom(items, n) == [j \in 1..(Len(items) - n) |-> Decoded(items[n + j])]

\* The "<Static>" entry of a type with class-level fields.
StaticSibling(val) ==
  IF HasClassFields(val) THEN <<SiblingEntry("Static", <<_STATIC_ENUM_I>>, val)>> ELSE <<>>

\* The top-level renderer of a spec with the views Components, Alpha and
\* Statistics and the default_view "Alpha" has been expanded.
ScenarioA == Rendered("DefaultPrinter") /\ disp.obj.val.printer = AlphaPrinter

\* C11: Scenario A: the top-level children are the children of the Alpha
\* view, then "<Static>" only if the type has class-level fields, then
\* "<Raw>", "<Components>" and "<Statistics>"; the default view has no entry,
\* and the entries carry the tags STATIC, RAW, VIEW(0) and VIEW(2) of the
\* value that is rendered.
C11_ScenarioA ==
  ScenarioA =>
    LET items == disp.kids.items
        val == disp.obj.val.val
        alpha == ColorViews[2].nodes
    IN /\ disp.kids.raised = ""
       /\ Len(items) >= Len(alpha)
       /\ Shown(SubSeq(items, 1, Len(alpha))) = IsolatedNodes(alpha)
       /\ DecodedFrom(items, Len(alpha))
            = StaticSibling(val)
              \o <<SiblingEntry("Raw", <<_RAW_ENUM_I>>, val),
                   SiblingEntry("Components", <<_VIEW_ENUM_I>>, val),
                   SiblingEntry("Statistics", <<_VIEW_ENUM_I + 2>>, val)>>

C11_Witness ==
  /\ ScenarioA /\ HasClassFields(disp.obj.val.val)
  /\ Len(disp.kids.items) = 6
  /\ disp.kids.items[3].label.kind = "static"

\* Where the entries of a kind stand in a child sequence.
EntriesAt(items, kind) == {j \in 1..Len(items) : items[j].label.kind = kind}

\* "<Raw>" comes after "<Static>" and before the entries of the views.
RawPlaced(items) ==
  \A r \in EntriesAt(items, "raw") :
    /\ \A x \in EntriesAt(items, "static") : x < r
    /\ \A x \in EntriesAt(items, "view") : r < x

\* C12 as stated: the top-level child sequence of a spec with at least one
\* view, with or without a default_view, holds exactly one "<Raw>" entry,
\* after "<Static>" and before the view entries; that of a spec with no views
\* holds none.
C12_RawIfAnyView ==
  Rendered("DefaultPrinter") =>
    /\ Cardinality(EntriesAt(disp.kids.items, "raw"))
         = (IF count_views(disp.obj.val.printer) > 0 THEN 1 ELSE 0)
    /\ RawPlaced(disp.kids.items)

\* C12 as amended: the sequence holds exactly one "<Raw>" entry, so placed,
\* when the spec has a view and a default_view, unless the children of the
\* default view raise (the sequence ends there, without the entry); it holds
\* none when the spec has no views, or has views and no default_view.
C12_RawWithDefaultView ==
  Rendered("DefaultPrinter") =>
    LET printer == disp.obj.val.printer
        raws == EntriesAt(disp.kids.items, "raw")
        both == count_views(printer) > 0 /\ DefaultViewName(printer) # Absent
    IN /\ Cardinality(raws) = (IF both /\ disp.kids.raised = "" THEN 1 ELSE 0)
       /\ RawPlaced(disp.kids.items)
       /\ disp.kids.raised # "" => both

C12_Witness ==
  /\ Rendered("DefaultPrinter") /\ disp.obj.val.printer = AlphaPrinter
  /\ ~HasClassFields(disp.obj.val.val)
  /\ Cardinality(EntriesAt(disp.kids.items, "raw")) = 1
  /\ Cardinality(EntriesAt(disp.kids.items, "view")) = 2

\* The value the host handed to _lookup_type has a type whose text is not
\* the text of a tag.
NotTagged ==
  /\ disp.pc = "looked"
  /\ ~get_type_tag_matches(TypeStr(TypeUnqualified(disp.val.type))).ok

\* C13: a value whose type text does not match the tag signature, also one
\* whose text holds "(****)", is resolved as an untagged value: the renderer
\* of its registered spec, else the generic struct or array renderer, else
\* none; nothing is raised.
C13_MismatchIsNotAnError ==
  NotTagged => disp.obj = _get_printer(disp.val, TypeStr(TypeUnqualified(disp.val.type)))

\* The top-level renderer is that of a spec with views whose default_view
\* names none of them.
MissingDefaultView ==
  /\ HasPrinter /\ disp.obj.val.cls = "DefaultPrinter"
  /\ count_views(disp.obj.val.printer) > 0
  /\ DefaultViewName(disp.obj.val.printer) # Absent
  /\ \A i \in 1..Len(disp.obj.val.printer.views) :
       disp.obj.val.printer.views[i].name # disp.obj.val.printer.default_view

KnownTag(e, printer) ==
  \/ e = <<_STATIC_ENUM_I>>
  \/ e = <<_RAW_ENUM_I>>
  \/ e[1] = _CHUNK_ENUM_I /\ Len(e) = 3
  \/ e[1] = _MSG_ENUM_I
  \/ Len(e) = 1 /\ e[1] >= _VIEW_ENUM_I /\ e[1] - _VIEW_ENUM_I < count_views(printer)

\* The value handed to _lookup_type is a tag on a value that can be
\* recovered, and its tuple is not one the engine knows.
UnknownTagKind ==
  /\ disp.pc = "looked"
  /\ extract_enums_tag(disp.val).ok
  /\ recover_value(disp.val).ok
  /\ ~KnownTag(extract_enums_tag(disp.val).val,
               _match_printer(TypeStr(TypeUnqualified(recover_value(disp.val).val.type))))

\* C16: for a tuple the engine does not know, _lookup_type returns a renderer
\* that shows an error text: it does not raise and it does not make the
\* renderer of some view.
C16_UnknownTagKind ==
  UnknownTagKind =>
    /\ disp.obj.ok
    /\ disp.obj.val # NoObj
    /\ disp.obj.val.cls = "MessagePrinter"

\* What does hold of a tuple the engine does not know: _lookup_type raises,
\* or it makes the renderer of a view the tuple selects from the end.
UnknownTagOutcome ==
  UnknownTagKind =>
    \/ ~disp.obj.ok /\ disp.obj.err \in {"AssertionError", "KeyError", "IndexError"}
    \/ disp.obj.ok /\ disp.obj.val.cls = "ViewPrinter"

\* The items of the generator a view's "elements" makes for val.
ViewElements(val, view) ==
  IF view.mode \in {"nodes+elements", "elements"}
  THEN <<Item(Label("chunk", "", 0), "value", make_enums_tag(val, _CHUNK_ENUM(0, 1)).val)>>
  ELSE <<>>

\* C17: the children of a view without "node" are the (label, accessor(value))
\* pairs of its nodes in order, then the items of its elements; a view of
\* elements alone yields those items.
C17_ViewWithLazyTail ==
  (/\ Rendered("ViewPrinter")
   /\ disp.obj.val.view.mode # "node"
   /\ \A j \in 1..Len(disp.obj.val.view.nodes) : disp.obj.val.view.nodes[j].fails = "never")
    => LET val == disp.obj.val.val
           view == disp.obj.val.view
       IN /\ disp.kids.raised = ""
          /\ disp.kids.items
               = [j \in 1..Len(view.nodes) |->
                    Item(Label("node", view.nodes[j].label, 0), "value",
                         FieldValue(val, view.nodes[j]))]
                 \o ViewElements(val, view)

\* What does hold: the nodes are yielded and the elements are never called.
ViewWithoutTail ==
  (/\ Rendered("ViewPrinter")
   /\ disp.obj.val.view.mode \in {"nodes+elements", "elements"})
    => Len(disp.kids.items) = Len(disp.obj.val.view.nodes)


\* The labels of the children a field loop yields.
ChildNames(kids) == {kids.items[j].label.text : j \in 1..Len(kids.items)}

\* The names of the fields of the type of val that have one.
NamedFields(val) ==
  {Fields(val.type.name)[i].name : i \in 1..Len(Fields(val.type.name))} \ {Absent}

\* The top-level renderer of a struct has yielded all its children, and no
\* field of the struct fails when it is fetched.
TopLevelOfSound ==
  /\ Rendered("DefaultPrinter") /\ IsStruct /\ disp.kids.raised = ""
  /\ \A i \in 1..Len(Fields(disp.obj.val.val.type.name)) :
       ~Fields(disp.obj.val.val.type.name)[i].fails

\* C21: the top-level renderer yields "<Static>" exactly when the Static
\* renderer of the same value yields a child, also for a type whose only
\* fields without storage have no name; and the named fields the Raw
\* renderer yields and those the Static renderer yields are disjoint and
\* together are all the named fields of the type.
C21_StaticIffChildren ==
  TopLevelOfSound =>
    LET val == disp.obj.val.val
    IN /\ (EntriesAt(disp.kids.items, "static") # {})
            = (emit_static_children(val).items # <<>>)
       /\ ChildNames(emit_raw_children(val)) \cap ChildNames(emit_static_children(val)) = {}
       /\ ChildNames(emit_raw_children(val)) \cup ChildNames(emit_static_children(val))
            = NamedFields(val)

\* What does hold: the named fields are split between the two renderers, and
\* "<Static>" stands for children when a field without storage has a name.
StaticOfNamedFields ==
  TopLevelOfSound =>
    LET val == disp.obj.val.val
        fields == Fields(val.type.name)
    IN /\ (\E i \in 1..Len(fields) : fields[i].static /\ fields[i].name # Absent)
            => /\ EntriesAt(disp.kids.items, "static") # {}
               /\ emit_static_children(val).items # <<>>
       /\ emit_static_children(val).items # <<>> => EntriesAt(disp.kids.items, "static") # {}
       /\ ChildNames(emit_raw_children(val)) \cap ChildNames(emit_static_children(val)) = {}
       /\ ChildNames(emit_raw_children(val)) \cup ChildNames(emit_static_children(val))
            = NamedFields(val)

\* What the code does with a "<Static>" entry of a type whose fields without
\* storage have no name: the Static renderer it leads to yields nothing.
EmptyStaticExpansion ==
  /\ Rendered("StaticPrinter") /\ disp.via.kind = "static"
  /\ disp.kids.items = <<>> /\ disp.kids.raised = ""
  /\ disp.obj.val.val.type.name = "Anon"


InitScan ==
  /\ scan \in {ScanFresh(cfg) : cfg \in ScanCfgs}
  /\ conv \in {[n \in ConvNames |-> IF n \in held THEN UserVal ELSE Unset] :
               held \in {{"pp_b", "_it", "_e", "pp_it"}, {"pp_e", "_end", "_b", "pp_self"}}}
  /\ codec = CodecIdle /\ reg = RegIdle
  /\ elems = ElemsIdle /\ exited = {} /\ disp = DispIdle /\ host = HostIdle
  /\ fmt = FmtIdle

ScanNext ==
  \/ ScanPull
  \/ ScanStop
  \/ ScanClose
  \/ \E g \in {"A"} : \E j \in 1..(MaxN + 1) : ExpandChunk(g, j)
  \/ \E g \in {"A"} : ElemsPull(g)
  \/ \E g \in {"A"} : ElemsStop(g)
  \/ \E g \in {"A"} : ElemsClose(g)
  \/ \E member \in {"data", "method", "overloaded", "missing"} : GetMember(member)
  \/ \E name \in {"_is_random_access", "_is_forward", "_is_bidirectional"} : Probe(name)

SpecScan == InitScan /\ [][ScanNext]_vars

(***************************************************************************)
(* The range scanner's properties.                                         *)
(***************************************************************************)
\* The length of the sequence a descriptor stands for: size is authoritative
\* when it is there.
SeqLen(cfg) == IF cfg.has_size THEN cfg.size ELSE cfg.dist

Ceil(n, k) == (n + k - 1) \div k

\* The m-th item (m from 1) is "[(m-1)*k..min(m*k, N)-1]" with the tag
\* CHUNK((m-1)*k, n).
IsChunk(item, m, k, N) ==
  /\ item.lo = (m - 1) * k
  /\ item.hi = Min(m * k, N) - 1
  /\ extract_enums_tag(item.tag) = Ok(_CHUNK_ENUM(item.lo, item.hi - item.lo + 1))

Covers(out, k, N) ==
  /\ Len(out) = Ceil(N, k)
  /\ \A m \in 1..Len(out) : IsChunk(out[m], m, k, N)

\* The sequence ran to its end by itself.
ScanComplete == scan.pc = "done" /\ ~scan.closed

\* C5: once emit_chunked_elements has ended, it has yielded ceil(N/k) chunks,
\* the m-th labelled "[m*k..min((m+1)*k, N)-1]" and tagged CHUNK(m*k, n),
\* whatever the tier and the descriptor.
C5_ChunkCoverage == ScanComplete => Covers(scan.out, scan.cfg.k, SeqLen(scan.cfg))

\* What does hold of chunk coverage: for a (begin, end) descriptor whose
\* iterators the evaluator can compare, increment and dereference, all three
\* tiers yield the ceil(N/k) chunks; 35 elements in chunks of 16 on the
\* pointer fast path are "[0..15]", "[16..31]", "[32..34]".
PairCoverage ==
  /\ (ScanComplete /\ ~scan.cfg.has_size /\ scan.cfg.eq /\ scan.cfg.inc)
       => Covers(scan.out, scan.cfg.k, scan.cfg.dist)
  /\ (ScanComplete /\ scan.cfg.dist = 35)
       => [m \in 1..Len(scan.out) |-> <<scan.out[m].lo, scan.out[m].hi>>]
             = <<(<<0, 15>>), (<<16, 31>>), (<<32, 34>>)>>

PairCoverageWitness ==
  /\ ScanComplete /\ scan.path = "fwd" /\ scan.cfg.dist = MaxN /\ scan.cfg.k = MaxK
  /\ Len(scan.out) = Ceil(MaxN, MaxK)

\* A forward scan with no size whose equality test the evaluator rejects.
ScenarioC == scan.path = "fwd" /\ ~scan.cfg.has_size /\ ~scan.cfg.eq

\* C6: in Scenario C the scan yields one chunk of chunk_size elements and
\* never a second one.
C6_ScenarioC == ScenarioC => Len(scan.out) <= 1

\* What the code does in Scenario C: every next() yields one more chunk of
\* chunk_size elements, and the sequence never ends by itself.
ScenarioCNeverEnds ==
  (ScenarioC /\ scan.cfg.inc)
    => /\ ~ScanComplete
       /\ \A m \in 1..Len(scan.out) :
            /\ scan.out[m].lo = (m - 1) * scan.cfg.k
            /\ scan.out[m].hi = m * scan.cfg.k - 1

\* C7: when a scoped block has been left, by its end or by an error, every
\* placeholder it set holds what it held when the block was entered, and is
\* unset if it was unset then.
C7_ScopedContext ==
  \A e \in exited : \A n \in DOMAIN e.before : conv[n] = e.before[n]

\* The forward scan left its block by an error of the evaluator; one of its
\* placeholders held a value of the session before, the other was unset.
C7_Witness ==
  /\ scan.err = "gdb.error"
  /\ \E e \in exited :
       /\ e.block = "emit_chunked_elements"
       /\ e.before["_it"] = UserVal /\ e.before["_end"] = Unset

\* The names a block saved.
SavedNames(saved) == {saved[i][1] : i \in 1..Len(saved)}

\* C8: after the host has stopped pulling a sequence it consumed in part, the
\* placeholders of that sequence hold what they held before its first pull.
C8_NoDanglingState ==
  /\ (scan.pc = "open" /\ scan.stopped)
       => \A n \in SavedNames(scan.saved) : conv[n] = scan.entry[n]
  /\ \A g \in ElemIds :
       (elems[g].pc = "open" /\ elems[g].stopped)
         => \A n \in SavedNames(elems[g].saved) : conv[n] = elems[g].entry[n]

\* C18: with a descriptor (begin, end, size) the chunks cover exactly the
\* indices 0..size-1 in every tier, whatever end - begin is.
C18_SizeIsAuthoritative ==
  (ScanComplete /\ scan.cfg.has_size)
    => /\ scan.raised = ""
       /\ Covers(scan.out, scan.cfg.k, scan.cfg.size)

\* What the code does with a descriptor of three items: the first next()
\* raises ValueError and no chunk is yielded.
SizedDescriptorRaises ==
  (scan.pc = "done" /\ scan.cfg.has_size) => (scan.raised = "ValueError" /\ scan.out = <<>>)

(***************************************************************************)
(* Two chunks of one sequence expanded side by side: the host holds the    *)
(* generators of two ChunkPrinters and pulls from either.                  *)
(***************************************************************************)
InitElems ==
  /\ scan \in {ScanFresh(ScanCfg(kind, MaxN, FALSE, 0, MaxK, TRUE, TRUE, TRUE)) :
                 kind \in {"ptr", "fwd"}}
  /\ conv \in {[n \in ConvNames |-> IF n \in held THEN UserVal ELSE Unset] :
               held \in {{}, {"pp_it"}}}
  /\ codec = CodecIdle /\ reg = RegIdle
  /\ elems = ElemsIdle /\ exited = {} /\ disp = DispIdle /\ host = HostIdle
  /\ fmt = FmtIdle

ElemsNext ==
  \/ ScanPull
  \/ \E g \in ElemIds : \E j \in 1..(MaxN + 1) : ExpandChunk(g, j)
  \/ \E g \in ElemIds : ElemsPull(g)
  \/ \E g \in ElemIds : ElemsStop(g)
  \/ \E g \in ElemIds : ElemsClose(g)
  \/ \E name \in {"_is_random_access"} : Probe(name)

SpecElems == InitElems /\ [][ElemsNext]_vars

\* The items generator g has yielded are labelled "[offset]", "[offset+1]",
\* ..., the j-th being the element j - 1 positions past the chunk's cursor;
\* when it has ended by itself it has yielded size of them.
ChunkExpansion(g) ==
  /\ \A j \in 1..Len(elems[g].out) :
       /\ elems[g].out[j].label = elems[g].offset + j - 1
       /\ elems[g].out[j].pos = elems[g].it.pos + j - 1
  /\ (elems[g].pc = "done" /\ ~elems[g].closed) => Len(elems[g].out) = elems[g].size

\* C19: a chunk's child sequence yields its size elements in order from its
\* own cursor, also when the host pulls from another chunk's sequence, or
\* renders something else that sets the placeholder, between two pulls.
C19_ChunkExpansion == \A g \in ElemIds : ChunkExpansion(g)

\* What does hold: a sequence yields its elements from its own cursor while
\* no other element sequence has been started since its first pull.
LoneChunkExpansion ==
  \A g \in ElemIds :
    (\A h \in ElemIds \ {g} : elems[h].pc \in {"idle", "fresh"}) => ChunkExpansion(g)

(***************************************************************************)
(* GdbConvenienceVars on its own: a with block over a list of (name,       *)
(* value) pairs, entered and left.                                         *)
(***************************************************************************)
MaxPairs == 2    \* longest argument list of GdbConvenienceVars

ArgLists ==
  UNION {[1..n -> {"pp_it", "_b", "$pp_it"} \X {Cursor(1), Cursor(2)}] : n \in 1..MaxPairs}

\* with GdbConvenienceVars(*pairs): pass.  When __init__ raises, no object
\* is made and __exit__ is not called.
WithBlock(pairs) ==
  /\ LET en == CvInit(conv, pairs, 1, <<>>)
     IN /\ conv' = IF en.ok THEN CvExit(en.conv, en.saved) ELSE en.conv
        /\ exited' = {Left("with", en.saved, conv)}
        /\ host' = Called("GdbConvenienceVars",
                          IF en.ok THEN Ok(NoObj) ELSE Raise("ValueError"))
  /\ UNCHANGED <<fmt, codec, reg, scan, elems, disp>>

InitVars ==
  /\ conv \in {[n \in ConvNames |-> IF n \in held THEN UserVal ELSE Unset] :
               held \in SUBSET {"pp_it", "_b"}}
  /\ codec = CodecIdle /\ reg = RegIdle /\ scan = ScanIdle
  /\ elems = ElemsIdle /\ exited = {} /\ disp = DispIdle /\ host = HostIdle
  /\ fmt = FmtIdle

VarsNext == \E pairs \in ArgLists : WithBlock(pairs)

SpecVars == InitVars /\ [][VarsNext]_vars

\* C20: after a with block over any argument list, also one that names a
\* placeholder twice and one whose construction raised part-way, every
\* placeholder the list names holds what it held before the object was
\* constructed.
C20_ExactRestore ==
  \A e \in exited :
    e.block = "with" => \A n \in DOMAIN e.before : conv[n] = e.before[n]

\* What does hold: a list that was constructed and names every placeholder
\* once restores the placeholders it names.
RestoreOfConstructed ==
  \A e \in exited :
    (e.block = "with" /\ host.result.ok /\ Cardinality(DOMAIN e.before) = MaxPairs)
      => \A n \in DOMAIN e.before : conv[n] = e.before[n]

InitSummary ==
  /\ fmt \in {FmtFresh(fields, max_len, named, show_type) :
                fields \in UNION {[1..n -> SFields] : n \in 0..MaxFields},
                max_len \in 0..MaxLen, named \in BOOLEAN, show_type \in BOOLEAN}
  /\ codec = CodecIdle /\ reg = RegIdle /\ conv = ConvIdle /\ scan = ScanIdle
  /\ elems = ElemsIdle /\ exited = {} /\ disp = DispIdle /\ host = HostIdle

SummaryNext == Summarise

SpecSummary == InitSummary /\ [][SummaryNext]_vars

\* The text the loops accumulate: the result without the type put before it.
Accumulated(text) == SelectSeq(text, LAMBDA x : x.t # "type")

\* The length of the text before piece p was appended, the ", " that joins a
\* field to the text being part of what is appended for the field.
Before(text, p) ==
  TextLen(SubSeq(text, 1, IF p > 1 /\ text[p - 1].t = ", " THEN p - 2 ELSE p - 1))

NoRepeat(seq) == \A a, b \in 1..Len(seq) : seq[a] = seq[b] => a = b

\* C14 as stated: summary_fn visits every field at most once, and the text
\* before the marker ", ..." exceeds max_len by at most the text of one
\* field.
C14_ByOneField ==
  fmt.pc = "done" =>
    LET text == Accumulated(fmt.out.summary)
    IN /\ NoRepeat(fmt.out.visited)
       /\ \A p \in 1..Len(text) :
            text[p].t = ", ..." =>
              TextLen(SubSeq(text, 1, p - 1)) - fmt.max_len <= text[p - 1].n

\* C14 as amended: summary_fn visits every field at most once and fetches
\* its value at most once; it appends a field only while the accumulated
\* text is shorter than max_len, so the text before the marker ", ..." has
\* reached max_len and exceeds it by less than what was appended for the
\* last field, its entry and the ", " that joins it; "{...}" stands for a
\* text that was too long before the first field; and no field at or after
\* the one where the text was cut is fetched or visited.
C14_SummaryTruncation ==
  fmt.pc = "done" =>
    LET text == Accumulated(fmt.out.summary)
    IN /\ NoRepeat(fmt.out.visited)
       /\ NoRepeat(fmt.out.called)
       /\ \A p \in 1..Len(text) :
            /\ text[p].t = "field" => Before(text, p) < fmt.max_len
            /\ text[p].t = ", ..." =>
                 /\ TextLen(SubSeq(text, 1, p - 1)) >= fmt.max_len
                 /\ TextLen(SubSeq(text, 1, p - 1)) - fmt.max_len
                      < text[p - 1].n + (IF text[p - 2].t = ", " THEN 2 ELSE 0)
                 /\ fmt.out.cut # 0
            /\ text[p].t = "{...}" =>
                 /\ Len(text) = 1 /\ fmt.max_len <= 2 /\ fmt.out.cut # 0
       /\ fmt.out.cut # 0 =>
            /\ \A k \in 1..Len(fmt.out.called) : fmt.out.called[k] < fmt.out.cut
            /\ \A k \in 1..Len(fmt.out.visited) : fmt.out.visited[k] <= fmt.out.cut
            /\ \E p \in 1..Len(text) : text[p].t \in {", ...", "{...}"}

\* Three fields with values, the third not reached: the text was cut after
\* the second, which took it past max_len.
C14_Witness ==
  /\ fmt.pc = "done" /\ fmt.out.cut = 3 /\ fmt.out.called = <<1, 2>>
  /\ TextLen(SubSeq(Accumulated(fmt.out.summary), 1, 4)) > fmt.max_len

InitCodec ==
  /\ codec \in CodecStarts
  /\ reg = RegIdle /\ conv = ConvIdle /\ scan = ScanIdle
  /\ elems = ElemsIdle /\ exited = {} /\ disp = DispIdle /\ host = HostIdle
  /\ fmt = FmtIdle

SpecCodec == InitCodec /\ [][CodecNext]_vars

InitRegistry ==
  /\ codec = CodecIdle /\ reg = RegIdle /\ conv = ConvIdle /\ scan = ScanIdle
  /\ elems = ElemsIdle /\ exited = {} /\ disp = DispIdle /\ host = HostIdle
  /\ fmt = FmtIdle

SpecRegistry == InitRegistry /\ [][RegistryNext]_vars

====
